---------------------------- MODULE Spec2Model ----------------------------
(***************************************************************************)
(* Three-view reconstruction pipeline of cadconvert-algo:                  *)
(*   separate_views -> build_topology (per view) -> build_reconstruction  *)
(*   (alignment, Lambda, Theta) -> write_step,                             *)
(* and the functions of cadconvert-core that stand beside it:              *)
(*   normalize_in_place, assign_three_view_roles, wireframe_step.          *)
(*                                                                         *)
(* A finite f64 value is modelled as the exact rational <<n, d>> in lowest *)
(* terms (d > 0); +infinity is <<1, 0>>, -infinity <<-1, 0>> and NaN       *)
(* <<0, 0>>.  A comparison of two norms is made on their squares, which    *)
(* orders them the same way.  TLC stops with an error on any integer       *)
(* overflow, so no result below rests on a wrapped product.                *)
(***************************************************************************)
EXTENDS Integers, Sequences, FiniteSets, TLC

VARIABLES
    drawing,     \* Drawing2D.entities handed to reconstruct_solid
    v_xy,        \* View2D of plane XY: [raw_entities, vertices, edges]
    v_xz,        \* View2D of plane XZ
    v_yz,        \* View2D of plane YZ
    shift_xy,    \* alignment shift applied to XY vertices
    shift_yz,    \* alignment shift applied to YZ vertices
    lambda,      \* Vec<LambdaRow>
    theta,       \* HashSet<ThetaEdge>
    step,        \* the DATA section written by write_step, one record per line
    first_run,   \* the vertices and edges build_topology left on its previous run
    stats,       \* NormalizeStats returned by normalize_in_place
    clusters,    \* the ViewCluster slice handed to assign_three_view_roles
    assignment,  \* Option<ViewAssignment> returned by assign_three_view_roles
    document,    \* the text returned by wireframe_step, one record per line
    pc           \* position of the caller in the pipeline

vars == <<drawing, v_xy, v_xz, v_yz, shift_xy, shift_yz, lambda, theta, step,
          first_run, stats, clusters, assignment, document, pc>>

\* The state of cadconvert-core's functions, which the pipeline of
\* cadconvert-algo never touches.
core == <<stats, clusters, assignment, document>>

\* No function of cadconvert-core has been called.
CoreIdle ==
    /\ stats = <<>>
    /\ clusters = <<>>
    /\ assignment = <<>>
    /\ document = <<>>

-----------------------------------------------------------------------------
(* Exact rational arithmetic standing for f64, with the IEEE 754 rules for *)
(* infinities and NaN: an operation on NaN gives NaN, inf - inf, 0 * inf   *)
(* and inf / inf give NaN, and every comparison with NaN is false.         *)

RECURSIVE GCD(_, _)
GCD(a, b) == IF b = 0 THEN a ELSE GCD(b, a % b)

IAbs(n) == IF n < 0 THEN -n ELSE n

\* n/d divided through by g, the sign carried by the numerator.
Reduce(n, d, g) ==
    IF d < 0 THEN <<(-n) \div g, (-d) \div g>> ELSE <<n \div g, d \div g>>

Rat(n, d) == Reduce(n, d, GCD(IAbs(n), IAbs(d)))

RInt(n) == <<n, 1>>

RZero == <<0, 1>>

ROne == <<1, 1>>

NaN == <<0, 0>>

Infinity == <<1, 0>>

is_finite(a) == a[2] # 0

is_nan(a) == a[2] = 0 /\ a[1] = 0

Signum(n) == IF n > 0 THEN 1 ELSE IF n < 0 THEN -1 ELSE 0

RNeg(a) == <<-a[1], a[2]>>

RAbs(a) == <<IAbs(a[1]), a[2]>>

\* a + b over the least common denominator, g the gcd of the denominators.
AddOver(a, b, g) ==
    Rat(a[1] * (b[2] \div g) + b[1] * (a[2] \div g), (a[2] \div g) * b[2])

RAdd(a, b) ==
    IF a[2] # 0 /\ b[2] # 0 THEN AddOver(a, b, GCD(a[2], b[2]))
    ELSE IF a[2] # 0 THEN b
    ELSE IF b[2] # 0 THEN a
    ELSE IF a = b THEN a ELSE NaN

RSub(a, b) == RAdd(a, RNeg(b))

\* a * b with the common factors g1 of a[1], b[2] and g2 of b[1], a[2] removed.
MulOver(a, b, g1, g2) ==
    <<(a[1] \div g1) * (b[1] \div g2), (a[2] \div g2) * (b[2] \div g1)>>

RMul(a, b) ==
    IF a[2] = 0 \/ b[2] = 0 THEN <<Signum(a[1]) * Signum(b[1]), 0>>
    ELSE IF a[1] = 0 \/ b[1] = 0 THEN RZero
    ELSE MulOver(a, b, GCD(IAbs(a[1]), b[2]), GCD(IAbs(b[1]), a[2]))

\* a / b; a finite value over an infinite one is 0, and x / 0 is an
\* infinity of the sign of x (NaN for 0 / 0).
RDiv(a, b) ==
    IF b[2] = 0 THEN (IF a[2] # 0 /\ b[1] # 0 THEN RZero ELSE NaN)
    ELSE IF b[1] = 0 THEN <<Signum(a[1]), 0>>
    ELSE RMul(a, IF b[1] > 0 THEN <<b[2], b[1]>> ELSE <<-b[2], -b[1]>>)

\* a < b, by integer parts and then by the reciprocals of the fractional
\* parts, so that no cross product is formed.
RECURSIVE RLt(_, _)
RLt(a, b) ==
    IF a[2] = 0 \/ b[2] = 0
    THEN /\ ~is_nan(a)
         /\ ~is_nan(b)
         /\ (IF a[2] = 0 THEN a[1] ELSE 0) < (IF b[2] = 0 THEN b[1] ELSE 0)
    ELSE IF a[1] \div a[2] # b[1] \div b[2] THEN a[1] \div a[2] < b[1] \div b[2]
    ELSE IF b[1] % b[2] = 0 THEN FALSE
    ELSE IF a[1] % a[2] = 0 THEN TRUE
    ELSE RLt(<<b[2], b[1] % b[2]>>, <<a[2], a[1] % a[2]>>)

RLe(a, b) == ~is_nan(a) /\ ~is_nan(b) /\ ~RLt(b, a)

RGt(a, b) == RLt(b, a)

RGe(a, b) == ~is_nan(a) /\ ~is_nan(b) /\ ~RLt(a, b)

-----------------------------------------------------------------------------
(* Points and vectors (nalgebra Point2 / Vector2, geom::Vec2).             *)

Pt(x, y) == [x |-> x, y |-> y]

PSub(p, q) == Pt(RSub(p.x, q.x), RSub(p.y, q.y))

PAdd(p, v) == Pt(RAdd(p.x, v.x), RAdd(p.y, v.y))

PScale(v, t) == Pt(RMul(v.x, t), RMul(v.y, t))

\* The square of v.norm().
Norm2(v) == RAdd(RMul(v.x, v.x), RMul(v.y, v.y))

\* v.norm() < e and v.norm() > e for e > 0.  A component that alone reaches
\* e decides the comparison; otherwise the squares are compared.
NormLt(v, e) ==
    /\ RLt(RAbs(v.x), e)
    /\ RLt(RAbs(v.y), e)
    /\ RLt(Norm2(v), RMul(e, e))

NormGt(v, e) ==
    /\ ~is_nan(v.x)
    /\ ~is_nan(v.y)
    /\ \/ RGt(RAbs(v.x), e)
       \/ RGt(RAbs(v.y), e)
       \/ RGt(Norm2(v), RMul(e, e))

EPSILON == <<1, 10000>>

MATCH_TOLERANCE == <<1, 1>>

-----------------------------------------------------------------------------
(* topology.rs                                                             *)

RawSegment(p1, p2, id) == [p1 |-> p1, p2 |-> p2, original_id |-> id]

\* The segments of one polyline from vertex i on: vertex i to vertex i+1,
\* and from the last vertex back to the first when the polyline is closed.
RECURSIVE PolylineSegments(_, _, _, _)
PolylineSegments(vs, closed, id, i) ==
    IF i > Len(vs) THEN <<>>
    ELSE (IF i + 1 <= Len(vs) THEN <<RawSegment(vs[i], vs[i + 1], id)>>
          ELSE IF closed THEN <<RawSegment(vs[i], vs[1], id)>>
          ELSE <<>>)
         \o PolylineSegments(vs, closed, id, i + 1)

EntitySegments(ent) ==
    IF ent.primitive.type = "Line"
    THEN <<RawSegment(ent.primitive.pts[1], ent.primitive.pts[2], ent.id)>>
    ELSE IF ent.primitive.type = "Polyline"
    THEN PolylineSegments(ent.primitive.pts, ent.primitive.closed, ent.id, 1)
    ELSE <<>>

RECURSIVE ExtractFrom(_, _)
ExtractFrom(entities, i) ==
    IF i > Len(entities) THEN <<>>
    ELSE EntitySegments(entities[i]) \o ExtractFrom(entities, i + 1)

extract_segments(entities) == ExtractFrom(entities, 1)

perp_dot(v1, v2) == RSub(RMul(v1.x, v2.y), RMul(v1.y, v2.x))

\* t and u each within [-EPSILON, 1 + EPSILON].
OnBoth(t, u) ==
    /\ RGe(t, RNeg(EPSILON)) /\ RLe(t, RAdd(ROne, EPSILON))
    /\ RGe(u, RNeg(EPSILON)) /\ RLe(u, RAdd(ROne, EPSILON))

\* The tail of intersect_segment_segment once r x s is known not to vanish.
IntersectAt(p, r, t, u) ==
    IF OnBoth(t, u) THEN <<PAdd(p, PScale(r, t))>> ELSE <<>>

IntersectLines(p, r, s, r_cross_s, q_minus_p) ==
    IF RLt(RAbs(r_cross_s), EPSILON) THEN <<>>
    ELSE IntersectAt(p, r, RDiv(perp_dot(q_minus_p, s), r_cross_s),
                     RDiv(perp_dot(q_minus_p, r), r_cross_s))

IntersectRays(p, r, q, s) == IntersectLines(p, r, s, perp_dot(r, s), PSub(q, p))

\* None is <<>>, Some(pt) is <<pt>>.
intersect_segment_segment(s1, s2) ==
    IntersectRays(s1.p1, PSub(s1.p2, s1.p1), s2.p1, PSub(s2.p2, s2.p1))

\* split_points_map[i] from partner j on: the intersection points of
\* segment i in the order the pair loop pushes them, which is the order of
\* the partner's index; the lower index is the first argument.
RECURSIVE SplitPointsFrom(_, _, _)
SplitPointsFrom(segments, i, j) ==
    IF j > Len(segments) THEN <<>>
    ELSE (IF j = i THEN <<>>
          ELSE intersect_segment_segment(segments[IF i < j THEN i ELSE j],
                                         segments[IF i < j THEN j ELSE i]))
         \o SplitPointsFrom(segments, i, j + 1)

SplitPoints(segments, i) == SplitPointsFrom(segments, i, 1)

\* The sort key of pts.sort_by: the distance from origin, as its square.
DistanceKey(p, origin) == Norm2(PSub(p, origin))

\* x put behind the first k elements of sorted.
InsertAfter(sorted, x, k) ==
    SubSeq(sorted, 1, k) \o <<x>> \o SubSeq(sorted, k + 1, Len(sorted))

\* The number of elements of sorted that a stable sort keeps before a new
\* element of the given key.
KeysUpTo(sorted, origin, key) ==
    Cardinality({i \in 1..Len(sorted) : RLe(DistanceKey(sorted[i], origin), key)})

RECURSIVE SortFrom(_, _, _, _)
SortFrom(sorted, pts, origin, i) ==
    IF i > Len(pts) THEN sorted
    ELSE SortFrom(InsertAfter(sorted, pts[i],
                              KeysUpTo(sorted, origin, DistanceKey(pts[i], origin))),
                  pts, origin, i + 1)

\* pts.sort_by on the distance from origin: a stable sort.
SortByDistance(pts, origin) == SortFrom(<<>>, pts, origin, 1)

RECURSIVE DedupFrom(_, _, _)
DedupFrom(kept, pts, i) ==
    IF i > Len(pts) THEN kept
    ELSE DedupFrom(IF kept # <<>> /\ NormLt(PSub(pts[i], kept[Len(kept)]), EPSILON)
                   THEN kept
                   ELSE Append(kept, pts[i]),
                   pts, i + 1)

\* pts.dedup_by(|a, b| (a - b).norm() < EPSILON): an element is removed when
\* it lies within EPSILON of the last element kept.
DedupPoints(pts) == DedupFrom(<<>>, pts, 1)

RECURSIVE SubSegmentsFrom(_, _, _)
SubSegmentsFrom(pts, id, i) ==
    IF i > Len(pts) THEN <<>>
    ELSE (IF NormGt(PSub(pts[i - 1], pts[i]), EPSILON)
          THEN <<RawSegment(pts[i - 1], pts[i], id)>>
          ELSE <<>>)
         \o SubSegmentsFrom(pts, id, i + 1)

\* The sub-segments between consecutive points, kept when longer than EPSILON.
SubSegments(pts, id) == SubSegmentsFrom(pts, id, 2)

\* One segment of the split loop, points its entry in split_points_map
\* (<<>> when it has none).
SplitAt(seg, points) ==
    IF points # <<>>
    THEN SubSegments(
             DedupPoints(SortByDistance(points \o <<seg.p1, seg.p2>>, seg.p1)),
             seg.original_id)
    ELSE <<seg>>

\* da.partial_cmp(&db).unwrap() inside pts.sort_by: None when the distance
\* of one of the points to sort is NaN.
SplitAborts(seg, points) ==
    /\ points # <<>>
    /\ \E k \in 1..Len(points \o <<seg.p1, seg.p2>>) :
          is_nan(DistanceKey((points \o <<seg.p1, seg.p2>>)[k], seg.p1))

SortAbortsIn(segments) ==
    \E i \in 1..Len(segments) : SplitAborts(segments[i], SplitPoints(segments, i))

\* Whether build_topology(view) aborts in the sort of its split loop.
TopologyAborts(view) == SortAbortsIn(extract_segments(view.raw_entities))

\* Mutation of SplitSegment: a segment is never split.
SplitSegment_NoSplit(segments, i) == <<segments[i]>>

SplitSegment(segments, i) == SplitAt(segments[i], SplitPoints(segments, i))

RECURSIVE FinalFrom(_, _)
FinalFrom(segments, i) ==
    IF i > Len(segments) THEN <<>>
    ELSE SplitSegment(segments, i) \o FinalFrom(segments, i + 1)

FinalSegments(segments) == FinalFrom(segments, 1)

\* The least index of found, from 0, or none when found is empty.
FirstIndex(found, none) ==
    IF found = {} THEN none
    ELSE (CHOOSE i \in found : \A j \in found : i <= j) - 1

\* Mutation of PointIndex: only an identical point is found again.
PointIndex_ExactOnly(p, points) ==
    FirstIndex({i \in 1..Len(points) : points[i] = p}, Len(points))

\* get_point_id: the index (from 0) of the first listed point within EPSILON
\* of p, or Len(points) when there is none and p is to be appended.
PointIndex(p, points) ==
    FirstIndex({i \in 1..Len(points) : NormLt(PSub(p, points[i]), EPSILON)},
               Len(points))

PointAt(p, points, idx) ==
    [id |-> idx,
     points |-> IF idx = Len(points) THEN Append(points, p) ELSE points]

get_point_id(p, points) == PointAt(p, points, PointIndex(p, points))

Edge2D(id, start, end, orig) ==
    [id |-> id, start |-> start, end |-> end, original_entity_id |-> orig]

\* Mutation of SnapSegment: the edge is pushed without comparing the ids.
SnapSegment_NoIdCheck(acc, seg) ==
    LET g1 == get_point_id(seg.p1, acc.points)
        g2 == get_point_id(seg.p2, g1.points)
    IN  [points |-> g2.points,
         edges  |-> Append(acc.edges,
                           Edge2D(Len(acc.edges), g1.id, g2.id, seg.original_id))]

\* The edge of a segment whose end points have the ids g1.id and g2.id.
PushEdge(acc, seg, g1, g2) ==
    [points |-> g2.points,
     edges  |-> IF g1.id # g2.id
                THEN Append(acc.edges,
                            Edge2D(Len(acc.edges), g1.id, g2.id, seg.original_id))
                ELSE acc.edges]

SnapSecond(acc, seg, g1) == PushEdge(acc, seg, g1, get_point_id(seg.p2, g1.points))

\* One segment of the snap loop: both endpoints are looked up (and appended
\* when new), and an edge is pushed when the two ids differ.
SnapSegment(acc, seg) == SnapSecond(acc, seg, get_point_id(seg.p1, acc.points))

RECURSIVE SnapFrom(_, _, _)
SnapFrom(acc, final_segments, i) ==
    IF i > Len(final_segments) THEN acc
    ELSE SnapFrom(SnapSegment(acc, final_segments[i]), final_segments, i + 1)

SnapAll(final_segments) ==
    SnapFrom([points |-> <<>>, edges |-> <<>>], final_segments, 1)

Vertex2D(id, point) == [id |-> id, point |-> point]

\* The view after the snap loop: raw entities kept, vertices numbered from 0.
Populate(raw, snapped) ==
    [raw_entities |-> raw,
     vertices |-> [i \in 1..Len(snapped.points) |->
                      Vertex2D(i - 1, snapped.points[i])],
     edges    |-> snapped.edges]

\* Mutation of build_topology: the raw entities are moved out of the view.
build_topology_TakesRaw(view) ==
    Populate(<<>>, SnapAll(FinalSegments(extract_segments(view.raw_entities))))

build_topology(view) ==
    Populate(view.raw_entities,
             SnapAll(FinalSegments(extract_segments(view.raw_entities))))

-----------------------------------------------------------------------------
(* Entities (model.rs).  A primitive is [type, pts, closed, radius]: a     *)
(* Line has its two end points in pts, a Polyline its vertices, a Circle   *)
(* its centre.                                                             *)

Line(a, b) == [type |-> "Line", pts |-> <<a, b>>, closed |-> FALSE, radius |-> RZero]

Polyline(vs, closed) ==
    [type |-> "Polyline", pts |-> vs, closed |-> closed, radius |-> RZero]

Circle(c, r) == [type |-> "Circle", pts |-> <<c>>, closed |-> FALSE, radius |-> r]

Entity2D(id, kind, layer, primitive) ==
    [id |-> id, kind |-> kind, layer |-> layer, primitive |-> primitive]

View2D(raw) == [raw_entities |-> raw, vertices |-> <<>>, edges |-> <<>>]

P(x, y) == Pt(RInt(x), RInt(y))

\* Half of EPSILON: two points this far apart snap together.
HalfEps == <<1, 20000>>

PE(i, j) == Pt(Rat(i, 20000), Rat(j, 20000))

-----------------------------------------------------------------------------
(* Inputs of the topology specification: every sequence of at most         *)
(* MaxTopoEntities primitives of TopoPool, as object lines of one view.    *)

MaxTopoEntities == 3

\* Shapes at the scale of a drawing: crossings, a T-junction, duplicates.
TopoPoolUnits ==
    << Line(P(0, 0), P(10, 10)),                  \* diagonal
       Line(P(0, 10), P(10, 0)),                  \* crosses it at (5,5)
       Line(P(10, 10), P(0, 0)),                  \* the diagonal reversed
       Line(P(0, 0), P(10, 0)),
       Line(P(5, 0), P(5, 5)),                    \* T-junction on the line above
       Line(P(0, 0), P(0, 0)),                    \* zero length
       Polyline(<<P(0, 0), P(10, 0)>>, TRUE),     \* closed, two vertices
       Polyline(<<P(0, 0), P(10, 0), P(10, 10)>>, FALSE),
       Circle(P(5, 5), RInt(5)) >>

\* Shapes whose points lie within EPSILON of each other or of a crossing.
TopoPoolEps ==
    << Line(P(0, 0), P(1, 0)),
       Line(P(1, 1), P(0, 0)),
       Line(Pt(HalfEps, RInt(-1)), Pt(HalfEps, RInt(1))), \* crosses EPSILON/2 from (0,0)
       Line(P(0, 0), PE(1, 0)),                   \* shorter than EPSILON
       Line(PE(1, 0), PE(2, 0)),                  \* chain: 0, EPSILON/2, EPSILON
       Line(PE(2, 0), PE(3, 0)),
       Line(P(0, 0), PE(2, 2)),                   \* two tiny crossing segments
       Line(PE(0, 2), PE(2, 0)),
       Polyline(<<P(0, 0), PE(1, 0), P(1, 0)>>, FALSE) >>

TopoPools == <<TopoPoolUnits, TopoPoolEps>>

\* An input is a pool and a sequence of indices into it.
TopoInputs ==
    UNION {{<<f, choice>> :
               choice \in UNION {[1..n -> 1..Len(TopoPools[f])] :
                                    n \in 0..MaxTopoEntities}} :
           f \in 1..Len(TopoPools)}

TopoEntities(input) ==
    [i \in 1..Len(input[2]) |->
        Entity2D(i, "Object", <<<<"0">>>>, TopoPools[input[1]][input[2][i]])]

NoView == View2D(<<>>)

InitTopology ==
    /\ drawing = <<>>
    /\ \E input \in TopoInputs : v_xy = View2D(TopoEntities(input))
    /\ v_xz = NoView
    /\ v_yz = NoView
    /\ shift_xy = Pt(RZero, RZero)
    /\ shift_yz = Pt(RZero, RZero)
    /\ lambda = <<>>
    /\ theta = {}
    /\ step = <<>>
    /\ first_run = <<>>
    /\ CoreIdle
    /\ pc = "topo_raw"

\* build_topology(&mut view), first call.
TopoFirstRun ==
    /\ pc = "topo_raw"
    /\ v_xy' = build_topology(v_xy)
    /\ first_run' = <<v_xy'.vertices, v_xy'.edges>>
    /\ pc' = "topo_built"
    /\ UNCHANGED <<core, drawing, v_xz, v_yz, shift_xy, shift_yz, lambda, theta, step>>

\* build_topology(&mut view) called again on the view it has populated.
TopoSecondRun ==
    /\ pc = "topo_built"
    /\ v_xy' = build_topology(v_xy)
    /\ pc' = "topo_rebuilt"
    /\ UNCHANGED <<core, drawing, v_xz, v_yz, shift_xy, shift_yz, lambda, theta, step,
                   first_run>>

NextTopology == TopoFirstRun \/ TopoSecondRun

SpecTopology == InitTopology /\ [][NextTopology]_vars

-----------------------------------------------------------------------------
(* Inputs of the degenerate-polyline specification: one polyline, open or  *)
(* closed, of DegVertices or DegVertices + 1 vertices of DegPoints, alone  *)
(* in its view.  build_topology runs on the polyline, then on the polyline *)
(* with one of its vertices left out; first_run records which.             *)

DegVertices == 3

\* Points at 0, EPSILON/2 and EPSILON on the x axis, and two far corners.
DegPoints == <<P(0, 0), PE(1, 0), PE(2, 0), P(1, 0), P(1, 1)>>

DegPolylines ==
    {Polyline([i \in 1..Len(choice) |-> DegPoints[choice[i]]], closed) :
        choice \in UNION {[1..n -> 1..Len(DegPoints)] :
                             n \in DegVertices..(DegVertices + 1)},
        closed \in BOOLEAN}

\* The polyline without its k-th vertex.
WithoutVertex(poly, k) ==
    Polyline(SubSeq(poly.pts, 1, k - 1) \o SubSeq(poly.pts, k + 1, Len(poly.pts)),
             poly.closed)

InitDegenerate ==
    /\ drawing \in {<<Entity2D(1, "Object", <<<<"0">>>>, poly)>> : poly \in DegPolylines}
    /\ v_xy = NoView
    /\ v_xz = NoView
    /\ v_yz = NoView
    /\ shift_xy = Pt(RZero, RZero)
    /\ shift_yz = Pt(RZero, RZero)
    /\ lambda = <<>>
    /\ theta = {}
    /\ step = <<>>
    /\ first_run = <<>>
    /\ CoreIdle
    /\ pc = "deg_raw"

\* build_topology on the view that holds the polyline.
DegBuild ==
    /\ pc = "deg_raw"
    /\ v_xy' = build_topology(View2D(drawing))
    /\ pc' = "deg_built"
    /\ UNCHANGED <<core, drawing, v_xz, v_yz, shift_xy, shift_yz, lambda, theta, step,
                   first_run>>

\* build_topology on the view that holds the polyline less one vertex.
DegBuildReduced ==
    /\ pc = "deg_built"
    /\ \E k \in 2..Len(drawing[1].primitive.pts) :
          /\ v_xz' = build_topology(View2D(
                         <<Entity2D(1, "Object", <<<<"0">>>>,
                                    WithoutVertex(drawing[1].primitive, k))>>))
          /\ first_run' = <<k>>
    /\ pc' = "deg_reduced"
    /\ UNCHANGED <<core, drawing, v_xy, v_yz, shift_xy, shift_yz, lambda, theta, step>>

NextDegenerate == DegBuild \/ DegBuildReduced

SpecDegenerate == InitDegenerate /\ [][NextDegenerate]_vars

-----------------------------------------------------------------------------
(* reconstruction.rs                                                       *)

\* sum_x and sum_y over the vertices from i on.
RECURSIVE SumFrom(_, _)
SumFrom(vertices, i) ==
    IF i > Len(vertices) THEN Pt(RZero, RZero)
    ELSE PAdd(vertices[i].point, SumFrom(vertices, i + 1))

MeanOf(sum, n) == Pt(RDiv(sum.x, RInt(n)), RDiv(sum.y, RInt(n)))

\* Mutation of get_centroid: the mean is formed for an empty view too.
get_centroid_AlwaysMean(view) ==
    MeanOf(SumFrom(view.vertices, 1), Len(view.vertices))

\* The mean of the view's vertices, the origin for a view without vertices.
get_centroid(view) ==
    IF Len(view.vertices) = 0 THEN Pt(RZero, RZero)
    ELSE MeanOf(SumFrom(view.vertices, 1), Len(view.vertices))

\* The number of elements of sorted that a stable sort by x keeps before v.
XsUpTo(sorted, v) ==
    Cardinality({i \in 1..Len(sorted) : RLe(sorted[i].point.x, v.point.x)})

RECURSIVE SortByXFrom(_, _, _)
SortByXFrom(sorted, vs, i) ==
    IF i > Len(vs) THEN sorted
    ELSE SortByXFrom(InsertAfter(sorted, vs[i], XsUpTo(sorted, vs[i])), vs, i + 1)

\* Mutation of SortByX: the vertices are left in the order of their ids.
SortByX_Unsorted(vs) == vs

\* sort_by on point.x: a stable sort.
SortByX(vs) == SortByXFrom(<<>>, vs, 1)

\* slice.partition_point(|v| v.point.x < bound): a binary search for the
\* number of leading elements below bound, mid = lo + (hi - lo) / 2.
RECURSIVE PartitionSearch(_, _, _, _)
PartitionSearch(sorted, bound, lo, hi) ==
    IF lo >= hi THEN lo
    ELSE IF RLt(sorted[lo + ((hi - lo) \div 2) + 1].point.x, bound)
    THEN PartitionSearch(sorted, bound, lo + ((hi - lo) \div 2) + 1, hi)
    ELSE PartitionSearch(sorted, bound, lo, lo + ((hi - lo) \div 2))

\* Mutation of partition_point: the elements at the bound are passed over
\* as well.
partition_point_Inclusive(sorted, bound) ==
    Cardinality({k \in 1..Len(sorted) : RLe(sorted[k].point.x, bound)})

partition_point(sorted, bound) == PartitionSearch(sorted, bound, 0, Len(sorted))

\* The elements the loop `for i in start..len { if x > target + tol break }`
\* visits: from partition_point up to the first element beyond the window.
RECURSIVE WindowFrom(_, _, _)
WindowFrom(sorted, i, upper) ==
    IF i > Len(sorted) \/ RGt(sorted[i].point.x, upper) THEN <<>>
    ELSE <<sorted[i]>> \o WindowFrom(sorted, i + 1, upper)

\* Mutation of Window: every vertex is a candidate, whatever its x.
Window_Whole(sorted, target) == sorted

Window(sorted, target) ==
    WindowFrom(sorted, partition_point(sorted, RSub(target, MATCH_TOLERANCE)) + 1,
               RAdd(target, MATCH_TOLERANCE))

\* Mutation of ZMatches: the z coordinates are not compared.
ZMatches_Always(p_xz, p_yz) == TRUE

\* (p_xz.y - p_yz.y).abs() <= MATCH_TOLERANCE
ZMatches(p_xz, p_yz) == RLe(RAbs(RSub(p_xz.y, p_yz.y)), MATCH_TOLERANCE)

LambdaRow(p3, xy, xz, yz) == [p3 |-> p3, v_xy_id |-> xy, v_xz_id |-> xz, v_yz_id |-> yz]

Point3(x, y, z) == [x |-> x, y |-> y, z |-> z]

\* The rows pushed for one XY vertex and one XZ candidate, from the j-th YZ
\* candidate on.
RECURSIVE RowsForPair(_, _, _, _, _, _)
RowsForPair(v1, p_xy, v2, cands, sh_yz, j) ==
    IF j > Len(cands) THEN <<>>
    ELSE (IF ZMatches(v2.point, PAdd(cands[j].point, sh_yz))
          THEN <<LambdaRow(Point3(p_xy.x, p_xy.y, v2.point.y),
                           v1.id, v2.id, cands[j].id)>>
          ELSE <<>>)
         \o RowsForPair(v1, p_xy, v2, cands, sh_yz, j + 1)

\* The rows pushed for one XY vertex, from the i-th XZ candidate on.
RECURSIVE RowsForVertex(_, _, _, _, _, _)
RowsForVertex(v1, p_xy, cands, yz_sorted, sh_yz, i) ==
    IF i > Len(cands) THEN <<>>
    ELSE RowsForPair(v1, p_xy, cands[i],
                     Window(yz_sorted, RSub(p_xy.y, sh_yz.x)), sh_yz, 1)
         \o RowsForVertex(v1, p_xy, cands, yz_sorted, sh_yz, i + 1)

\* The loop over the XY vertices, from the i-th on.
RECURSIVE LambdaFrom(_, _, _, _, _, _)
LambdaFrom(vertices, xz_sorted, yz_sorted, sh_xy, sh_yz, i) ==
    IF i > Len(vertices) THEN <<>>
    ELSE RowsForVertex(vertices[i], PAdd(vertices[i].point, sh_xy),
                       Window(xz_sorted, RAdd(vertices[i].point.x, sh_xy.x)),
                       yz_sorted, sh_yz, 1)
         \o LambdaFrom(vertices, xz_sorted, yz_sorted, sh_xy, sh_yz, i + 1)

\* filter(|v| v.point.x.is_finite() && v.point.y.is_finite()), from the
\* i-th vertex on.
RECURSIVE FiniteFrom(_, _)
FiniteFrom(vertices, i) ==
    IF i > Len(vertices) THEN <<>>
    ELSE (IF is_finite(vertices[i].point.x) /\ is_finite(vertices[i].point.y)
          THEN <<vertices[i]>>
          ELSE <<>>)
         \o FiniteFrom(vertices, i + 1)

build_lambda_optimized(xy, xz, yz, sh_xy, sh_yz) ==
    LambdaFrom(xy.vertices, SortByX(FiniteFrom(xz.vertices, 1)),
               SortByX(FiniteFrom(yz.vertices, 1)), sh_xy, sh_yz, 1)

\* The lookup set of a view: every edge as the pair (min, max) of its ids.
EdgeKeys(view) ==
    {IF view.edges[k].start < view.edges[k].end
     THEN <<view.edges[k].start, view.edges[k].end>>
     ELSE <<view.edges[k].end, view.edges[k].start>> : k \in 1..Len(view.edges)}

\* Mutation of edge_exists: the key is looked up as (id1, id2), not ordered.
edge_exists_Unordered(edges, id1, id2) == id1 = id2 \/ <<id1, id2>> \in edges

edge_exists(edges, id1, id2) ==
    \/ id1 = id2
    \/ (IF id1 < id2 THEN <<id1, id2>> ELSE <<id2, id1>>) \in edges

ThetaEdge(i, j) == [start_lambda_idx |-> i, end_lambda_idx |-> j]

\* The pair loop of build_theta_optimized over the three lookup sets.
ThetaOver(lam, edges_xy, edges_xz, edges_yz) ==
    {ThetaEdge(ij[1] - 1, ij[2] - 1) : ij \in
        {ij \in (1..Len(lam)) \X (1..Len(lam)) :
            /\ ij[1] < ij[2]
            /\ edge_exists(edges_xy, lam[ij[1]].v_xy_id, lam[ij[2]].v_xy_id)
            /\ edge_exists(edges_xz, lam[ij[1]].v_xz_id, lam[ij[2]].v_xz_id)
            /\ edge_exists(edges_yz, lam[ij[1]].v_yz_id, lam[ij[2]].v_yz_id)}}

build_theta_optimized(lam, xy, xz, yz) ==
    ThetaOver(lam, EdgeKeys(xy), EdgeKeys(xz), EdgeKeys(yz))

\* The alignment shifts of build_reconstruction from the three centroids.
AlignShiftXY(center_xy, center_xz) == Pt(RSub(center_xz.x, center_xy.x), RZero)

\* Mutation of AlignShiftYZ: the two offsets in the other order.
AlignShiftYZ_Swapped(center_xy, center_xz, center_yz) ==
    Pt(RSub(center_xz.y, center_yz.y), RSub(center_xy.y, center_yz.x))

AlignShiftYZ(center_xy, center_xz, center_yz) ==
    Pt(RSub(center_xy.y, center_yz.x), RSub(center_xz.y, center_yz.y))

\* build_reconstruction(&v_xy, &v_xz, &v_yz)
BuildReconstruction ==
    /\ pc = "views_built"
    /\ shift_xy' = AlignShiftXY(get_centroid(v_xy), get_centroid(v_xz))
    /\ shift_yz' = AlignShiftYZ(get_centroid(v_xy), get_centroid(v_xz),
                                get_centroid(v_yz))
    /\ lambda' = build_lambda_optimized(v_xy, v_xz, v_yz, shift_xy', shift_yz')
    /\ theta' = build_theta_optimized(lambda', v_xy, v_xz, v_yz)
    /\ pc' = "reconstructed"
    /\ UNCHANGED <<core, drawing, v_xy, v_xz, v_yz, step, first_run>>

-----------------------------------------------------------------------------
(* geom.rs: BBox2.                                                         *)

BBox2(min, max) == [min |-> min, max |-> max]

\* BBox2::empty(): min = (+inf, +inf), max = (-inf, -inf).
EmptyBox == BBox2(Pt(Infinity, Infinity), Pt(RNeg(Infinity), RNeg(Infinity)))

\* f64::min and f64::max: the other operand when one is NaN.
RMin(a, b) == IF is_nan(a) THEN b ELSE IF RLt(b, a) THEN b ELSE a

RMax(a, b) == IF is_nan(a) THEN b ELSE IF RLt(a, b) THEN b ELSE a

is_empty(b) == RGt(b.min.x, b.max.x) \/ RGt(b.min.y, b.max.y)

include_point(b, p) ==
    BBox2(Pt(RMin(b.min.x, p.x), RMin(b.min.y, p.y)),
          Pt(RMax(b.max.x, p.x), RMax(b.max.y, p.y)))

union(a, b) ==
    IF is_empty(a) THEN b
    ELSE IF is_empty(b) THEN a
    ELSE BBox2(Pt(RMin(a.min.x, b.min.x), RMin(a.min.y, b.min.y)),
               Pt(RMax(a.max.x, b.max.x), RMax(a.max.y, b.max.y)))

center(b) ==
    Pt(RMul(RAdd(b.min.x, b.max.x), <<1, 2>>), RMul(RAdd(b.min.y, b.max.y), <<1, 2>>))

expand(b, delta) ==
    BBox2(Pt(RSub(b.min.x, delta), RSub(b.min.y, delta)),
          Pt(RAdd(b.max.x, delta), RAdd(b.max.y, delta)))

\* dx (or dy) of distance_to: the gap between two intervals, 0 when they meet.
AxisGap(amin, amax, bmin, bmax) ==
    IF RLt(amax, bmin) THEN RSub(bmin, amax)
    ELSE IF RLt(bmax, amin) THEN RSub(amin, bmax)
    ELSE RZero

\* a.distance_to(b) < bound, on the squares.
DistanceBelow(a, b, bound) ==
    /\ RLt(Norm2(Pt(AxisGap(a.min.x, a.max.x, b.min.x, b.max.x),
                    AxisGap(a.min.y, a.max.y, b.min.y, b.max.y))),
           RMul(bound, bound))

\* Primitive2D::bbox of a polyline: every vertex from the i-th on included.
RECURSIVE IncludeFrom(_, _, _)
IncludeFrom(b, pts, i) ==
    IF i > Len(pts) THEN b ELSE IncludeFrom(include_point(b, pts[i]), pts, i + 1)

\* Primitive2D::bbox / Entity2D::bbox
bbox(ent) ==
    IF ent.primitive.type = "Circle"
    THEN BBox2(Pt(RSub(ent.primitive.pts[1].x, ent.primitive.radius),
                  RSub(ent.primitive.pts[1].y, ent.primitive.radius)),
               Pt(RAdd(ent.primitive.pts[1].x, ent.primitive.radius),
                  RAdd(ent.primitive.pts[1].y, ent.primitive.radius)))
    ELSE IncludeFrom(EmptyBox, ent.primitive.pts, 1)

-----------------------------------------------------------------------------
(* view_separation.rs.  A layer name is a sequence of one-character        *)
(* strings; style.layer is <<>> for None and <<name>> for Some(name).      *)

LowerCase ==
    <<"a", "b", "c", "d", "e", "f", "g", "h", "i", "j", "k", "l", "m",
      "n", "o", "p", "q", "r", "s", "t", "u", "v", "w", "x", "y", "z">>

UpperCase ==
    <<"A", "B", "C", "D", "E", "F", "G", "H", "I", "J", "K", "L", "M",
      "N", "O", "P", "Q", "R", "S", "T", "U", "V", "W", "X", "Y", "Z">>

to_ascii_uppercase(name) ==
    [i \in 1..Len(name) |->
        IF \E k \in 1..26 : LowerCase[k] = name[i]
        THEN UpperCase[CHOOSE k \in 1..26 : LowerCase[k] = name[i]]
        ELSE name[i]]

\* str::contains
contains(name, pattern) ==
    \E i \in 0..(Len(name) - Len(pattern)) :
        SubSeq(name, i + 1, i + Len(pattern)) = pattern

\* entity.style.layer.as_deref().unwrap_or("0").to_ascii_uppercase()
LayerOf(ent) ==
    to_ascii_uppercase(IF ent.layer = <<>> THEN <<"0">> ELSE ent.layer[1])

\* Mutation of PlaneOfLayer: FRONT and XZ are looked for before XY and TOP.
PlaneOfLayer_FrontFirst(layer) ==
    IF contains(layer, <<"X", "Z">>)
       \/ contains(layer, <<"F", "R", "O", "N", "T">>)
    THEN "XZ"
    ELSE IF contains(layer, <<"X", "Y">>) \/ contains(layer, <<"T", "O", "P">>)
    THEN "XY"
    ELSE IF contains(layer, <<"Y", "Z">>)
            \/ contains(layer, <<"R", "I", "G", "H", "T">>)
            \/ contains(layer, <<"S", "I", "D", "E">>)
    THEN "YZ"
    ELSE "none"

\* The view an upper-cased layer name sends its entity to.
PlaneOfLayer(layer) ==
    IF contains(layer, <<"X", "Y">>) \/ contains(layer, <<"T", "O", "P">>)
    THEN "XY"
    ELSE IF contains(layer, <<"X", "Z">>)
            \/ contains(layer, <<"F", "R", "O", "N", "T">>)
    THEN "XZ"
    ELSE IF contains(layer, <<"Y", "Z">>)
            \/ contains(layer, <<"R", "I", "G", "H", "T">>)
            \/ contains(layer, <<"S", "I", "D", "E">>)
    THEN "YZ"
    ELSE "none"

\* Mutation of IsGeometry: dimensions and texts count as geometry.
IsGeometry_Any(ent) == TRUE

\* entity.kind is neither Dimension nor Text.
IsGeometry(ent) == ent.kind # "Dimension" /\ ent.kind # "Text"

\* The entities, from the i-th on, the tagging loop pushes to the plane.
RECURSIVE TaggedFrom(_, _, _)
TaggedFrom(entities, plane, i) ==
    IF i > Len(entities) THEN <<>>
    ELSE (IF IsGeometry(entities[i]) /\ PlaneOfLayer(LayerOf(entities[i])) = plane
          THEN <<entities[i]>>
          ELSE <<>>)
         \o TaggedFrom(entities, plane, i + 1)

\* Mutation of InitialGroups: dimensions and texts are grouped as well.
RECURSIVE InitialGroups_AllKinds(_, _)
InitialGroups_AllKinds(entities, i) ==
    IF i > Len(entities) THEN <<>>
    ELSE <<[box |-> expand(bbox(entities[i]), <<5, 1>>),
            ents |-> <<entities[i]>>]>>
         \o InitialGroups_AllKinds(entities, i + 1)

\* valid_ents of separate_spatially, each with its box grown by 5.
RECURSIVE InitialGroups(_, _)
InitialGroups(entities, i) ==
    IF i > Len(entities) THEN <<>>
    ELSE (IF IsGeometry(entities[i])
          THEN <<[box |-> expand(bbox(entities[i]), <<5, 1>>),
                  ents |-> <<entities[i]>>]>>
          ELSE <<>>)
         \o InitialGroups(entities, i + 1)

\* The test of the merge loop on two boxes.
ShouldMerge(a, b) == ~is_empty(union(a, b)) /\ DistanceBelow(a, b, ROne)

\* definitions.remove(j) merged into definitions[i].
MergeInto(defs, i, j) ==
    [k \in 1..(Len(defs) - 1) |->
        IF k = i
        THEN [box |-> union(defs[i].box, defs[j].box),
              ents |-> defs[i].ents \o defs[j].ents]
        ELSE IF k < j THEN defs[k] ELSE defs[k + 1]]

\* One round of the two inner while loops, from the pair (i, j) on.
RECURSIVE MergePass(_, _, _, _)
MergePass(defs, i, j, changed) ==
    IF i > Len(defs) THEN [defs |-> defs, changed |-> changed]
    ELSE IF j > Len(defs) THEN MergePass(defs, i + 1, i + 2, changed)
    ELSE IF ShouldMerge(defs[i].box, defs[j].box)
    THEN MergePass(MergeInto(defs, i, j), i, j, TRUE)
    ELSE MergePass(defs, i, j + 1, changed)

\* while changed { ... }
RECURSIVE MergeLoop(_)
MergeLoop(pass) ==
    IF pass.changed THEN MergeLoop(MergePass(pass.defs, 1, 2, FALSE))
    ELSE pass.defs

\* Mutation of MergeGroups: one round of the inner loops and no more.
MergeGroups_OnePass(defs) == MergePass(defs, 1, 2, FALSE).defs

MergeGroups(defs) == MergeLoop(MergePass(defs, 1, 2, FALSE))

\* The union of the boxes of the entities from the i-th on with b.
RECURSIVE UnionFrom(_, _, _)
UnionFrom(b, entities, i) ==
    IF i > Len(entities) THEN b
    ELSE UnionFrom(union(b, bbox(entities[i])), entities, i + 1)

\* The three starting centres of run_kmeans_k3: top, front, side.
Centers3(min, max, w, h) ==
    << Pt(RAdd(min.x, RMul(w, <<1, 4>>)), RSub(max.y, RMul(h, <<1, 4>>))),
       Pt(RAdd(min.x, RMul(w, <<1, 4>>)), RAdd(min.y, RMul(h, <<1, 4>>))),
       Pt(RSub(max.x, RMul(w, <<1, 4>>)), RAdd(min.y, RMul(h, <<1, 4>>))) >>

\* The two starting centres of run_kmeans_k2: left and right when the box is
\* wider than high, top and bottom otherwise.
Centers2(min, max, w, h) ==
    IF RGt(w, h)
    THEN << Pt(RAdd(min.x, RMul(w, <<1, 4>>)), RAdd(min.y, RMul(h, <<1, 2>>))),
            Pt(RSub(max.x, RMul(w, <<1, 4>>)), RAdd(min.y, RMul(h, <<1, 2>>))) >>
    ELSE << Pt(RAdd(min.x, RMul(w, <<1, 2>>)), RSub(max.y, RMul(h, <<1, 4>>))),
            Pt(RAdd(min.x, RMul(w, <<1, 2>>)), RAdd(min.y, RMul(h, <<1, 4>>))) >>

\* The scan of the centres from the k-th on: best_k changes only when the
\* distance is strictly below best_dist, so an unordered or infinite distance
\* leaves it alone; hypot values are compared on their squares.
RECURSIVE BestFrom(_, _, _, _, _)
BestFrom(c, centers, k, best_k, best_dist) ==
    IF k > Len(centers) THEN best_k
    ELSE IF RLt(Norm2(PSub(c, centers[k])), best_dist)
    THEN BestFrom(c, centers, k + 1, k, Norm2(PSub(c, centers[k])))
    ELSE BestFrom(c, centers, k + 1, best_k, best_dist)

\* best_dist starts at f64::INFINITY and best_k at the first centre.
BestK(c, centers) == BestFrom(c, centers, 1, 1, Infinity)

Assign(entities, centers) ==
    [i \in 1..Len(entities) |-> BestK(center(bbox(entities[i])), centers)]

\* sums[k] over the entities from the i-th on.
RECURSIVE SumOfCluster(_, _, _, _)
SumOfCluster(entities, assignments, k, i) ==
    IF i > Len(entities) THEN Pt(RZero, RZero)
    ELSE IF assignments[i] = k
    THEN PAdd(center(bbox(entities[i])),
              SumOfCluster(entities, assignments, k, i + 1))
    ELSE SumOfCluster(entities, assignments, k, i + 1)

CountOfCluster(assignments, k) ==
    Cardinality({i \in 1..Len(assignments) : assignments[i] = k})

\* The centres after the update step; a centre without entities stays.
Update(entities, assignments, centers) ==
    [k \in 1..Len(centers) |->
        IF CountOfCluster(assignments, k) > 0
        THEN MeanOf(SumOfCluster(entities, assignments, k, 1),
                    CountOfCluster(assignments, k))
        ELSE centers[k]]

\* sqrt(a) + sqrt(b) < e, for a, b >= 0, once e is known.
Roots2Under(a, b, e) ==
    /\ RGt(e, RZero)
    /\ RLt(RMul(<<4, 1>>, RMul(a, b)), RMul(e, e))

\* sqrt(a) + sqrt(b) < c
Roots2Below(a, b, c) ==
    RGt(c, RZero) /\ Roots2Under(a, b, RSub(RMul(c, c), RAdd(a, b)))

\* sqrt(a) + sqrt(b) + sqrt(c) < d, as sqrt(4ab) + sqrt(4ddc) < dd + c - a - b
Roots3Below(a, b, c, d) ==
    /\ RLt(c, RMul(d, d))
    /\ Roots2Below(RMul(<<4, 1>>, RMul(a, b)),
                   RMul(RMul(<<4, 1>>, RMul(d, d)), c),
                   RSub(RAdd(RMul(d, d), c), RAdd(a, b)))

\* moved < bound, moved the sum of the distances between old and new centres;
\* one distance that reaches the bound decides.
MovedBelow(old, new, bound) ==
    /\ \A k \in 1..Len(old) : RLt(Norm2(PSub(new[k], old[k])), RMul(bound, bound))
    /\ IF Len(old) = 2
       THEN Roots2Below(Norm2(PSub(new[1], old[1])), Norm2(PSub(new[2], old[2])),
                        bound)
       ELSE Roots3Below(Norm2(PSub(new[1], old[1])), Norm2(PSub(new[2], old[2])),
                        Norm2(PSub(new[3], old[3])), bound)

KMeansIterations == 10

\* for _iter in 0..10 { assign; update; if moved < 0.1 { break } }: the
\* assignments of the last iteration run.
RECURSIVE KMeansFrom(_, _, _)
RECURSIVE KMeansUpdate(_, _, _, _)
RECURSIVE KMeansMoved(_, _, _, _, _)
KMeansMoved(entities, centers, iter, assignments, new) ==
    IF iter + 1 >= KMeansIterations \/ MovedBelow(centers, new, <<1, 10>>)
    THEN assignments
    ELSE KMeansFrom(entities, new, iter + 1)

KMeansUpdate(entities, centers, iter, assignments) ==
    CHOOSE r \in {KMeansMoved(entities, centers, iter, assignments, new) :
                     new \in {Update(entities, assignments, centers)}} : TRUE

KMeansFrom(entities, centers, iter) ==
    CHOOSE r \in {KMeansUpdate(entities, centers, iter, assignments) :
                     assignments \in {Assign(entities, centers)}} : TRUE

\* clusters[k]: the entities assigned to k, from the i-th on.
RECURSIVE Members(_, _, _, _)
Members(entities, assignments, k, i) ==
    IF i > Len(entities) THEN <<>>
    ELSE (IF assignments[i] = k THEN <<entities[i]>> ELSE <<>>)
         \o Members(entities, assignments, k, i + 1)

\* A cluster with its box (not expanded), dropped when it has no entity.
GroupOf(members) ==
    IF members = <<>> THEN <<>>
    ELSE <<[box |-> UnionFrom(EmptyBox, members, 1), ents |-> members]>>

RECURSIVE GroupsFrom(_, _, _, _)
GroupsFrom(entities, assignments, count, k) ==
    IF k > count THEN <<>>
    ELSE GroupOf(Members(entities, assignments, k, 1))
         \o GroupsFrom(entities, assignments, count, k + 1)

KMeans3(entities, global_bbox) ==
    CHOOSE groups \in
        {GroupsFrom(entities, assignments, 3, 1) :
            assignments \in
                {KMeansFrom(entities, centers, 0) :
                    centers \in
                        {Centers3(global_bbox.min, global_bbox.max,
                                  RSub(global_bbox.max.x, global_bbox.min.x),
                                  RSub(global_bbox.max.y, global_bbox.min.y))}}} :
        TRUE

run_kmeans_k3(entities) ==
    IF entities = <<>> THEN <<>>
    ELSE CHOOSE groups \in
             {KMeans3(entities, global_bbox) :
                 global_bbox \in {UnionFrom(EmptyBox, entities, 1)}} : TRUE

KMeans2(entities, global_bbox) ==
    CHOOSE groups \in
        {GroupsFrom(entities, assignments, 2, 1) :
            assignments \in
                {KMeansFrom(entities, centers, 0) :
                    centers \in
                        {Centers2(global_bbox.min, global_bbox.max,
                                  RSub(global_bbox.max.x, global_bbox.min.x),
                                  RSub(global_bbox.max.y, global_bbox.min.y))}}} :
        TRUE

run_kmeans_k2(entities) ==
    IF entities = <<>> THEN <<>>
    ELSE CHOOSE groups \in
             {KMeans2(entities, global_bbox) :
                 global_bbox \in {UnionFrom(EmptyBox, entities, 1)}} : TRUE

\* max_by_key on the entity count of two groups: the last of the largest.
LargestOf(defs) == IF Len(defs[2].ents) >= Len(defs[1].ents) THEN 2 ELSE 1

\* The largest group replaced by its two halves when k-means finds two.
SplitResult(rest, large_cluster, split_clusters) ==
    IF Len(split_clusters) = 2 THEN rest \o split_clusters
    ELSE rest \o <<large_cluster>>

SplitLargest(defs, max_idx) ==
    CHOOSE result \in
        {SplitResult(<<defs[3 - max_idx]>>, defs[max_idx], split_clusters) :
            split_clusters \in {run_kmeans_k2(defs[max_idx].ents)}} : TRUE

\* The k-means corrections for one and for two groups.
Corrected(defs) ==
    IF Len(defs) = 1 THEN run_kmeans_k3(defs[1].ents)
    ELSE IF Len(defs) = 2 THEN SplitLargest(defs, LargestOf(defs))
    ELSE defs

\* The number of groups a stable sort by decreasing size keeps before g.
SizesDownTo(sorted, g) ==
    Cardinality({i \in 1..Len(sorted) : Len(sorted[i].ents) >= Len(g.ents)})

\* definitions.sort_by_key(|g| Reverse(g.1.len())): a stable sort.
RECURSIVE SortBySize(_, _, _)
SortBySize(sorted, defs, i) ==
    IF i > Len(defs) THEN sorted
    ELSE SortBySize(InsertAfter(sorted, defs[i], SizesDownTo(sorted, defs[i])),
                    defs, i + 1)

\* Mutation of TopThree: truncate(3) with no sort before it.
TopThree_Unsorted(defs) == IF Len(defs) > 3 THEN SubSeq(defs, 1, 3) ELSE defs

\* The groups after `if definitions.len() != 3 { sort; truncate(3) }`; fewer
\* than three groups are left for the caller to refuse.
TopThree(defs) ==
    IF Len(defs) = 3 THEN defs
    ELSE IF Len(defs) > 3 THEN SubSeq(SortBySize(<<>>, defs, 1), 1, 3)
    ELSE defs

\* The number of indices a stable sort by centre coordinate keeps before a.
CoordsUpTo(sorted, centers, axis, a) ==
    Cardinality({i \in 1..Len(sorted) :
                    RLe(centers[sorted[i]][axis], centers[a][axis])})

\* indices.sort_by on the centre's coordinate along axis: a stable sort.
RECURSIVE SortIndices(_, _, _, _, _)
SortIndices(sorted, indices, centers, axis, i) ==
    IF i > Len(indices) THEN sorted
    ELSE SortIndices(InsertAfter(sorted, indices[i],
                                 CoordsUpTo(sorted, centers, axis, indices[i])),
                     indices, centers, axis, i + 1)

Ok(xy, xz, yz) == [ok |-> TRUE, views |-> <<xy, xz, yz>>, panic |-> FALSE]

Err == [ok |-> FALSE, views |-> <<>>, panic |-> FALSE]

\* The call does not return: an unwrap of None unwinds the thread.
Panic == [ok |-> FALSE, views |-> <<>>, panic |-> TRUE]

\* partial_cmp(..).unwrap() inside sort_by: None for a NaN key, and every
\* element of a slice of two or more is compared at least once.
SortAborts(indices, centers, axis) ==
    /\ Len(indices) >= 2
    /\ \E k \in 1..Len(indices) : is_nan(centers[indices[k]][axis])

\* top_idx is indices[2]; front_idx and side_idx the bottom row by x.
RolesOf(defs, top_idx, bottom_row) ==
    Ok(defs[top_idx].ents, defs[bottom_row[1]].ents, defs[bottom_row[2]].ents)

RolesByY(defs, centers, indices) ==
    IF SortAborts(<<indices[1], indices[2]>>, centers, "x") THEN Panic
    ELSE RolesOf(defs, indices[3],
                 SortIndices(<<>>, <<indices[1], indices[2]>>, centers, "x", 1))

\* Mutation of RolesByCenters: the indices are not sorted by y.
RolesByCenters_Unsorted(defs, centers) ==
    IF SortAborts(<<1, 2, 3>>, centers, "y") THEN Panic
    ELSE RolesByY(defs, centers, <<1, 2, 3>>)

RolesByCenters(defs, centers) ==
    IF SortAborts(<<1, 2, 3>>, centers, "y") THEN Panic
    ELSE RolesByY(defs, centers, SortIndices(<<>>, <<1, 2, 3>>, centers, "y", 1))

\* The tail of separate_spatially, from `if definitions.len() != 3` on.
AssignViews(defs) ==
    IF Len(defs) < 3 THEN Err
    ELSE RolesByCenters(defs, [k \in 1..3 |-> center(defs[k].box)])

\* Mutation of separate_spatially: the groups are never corrected by k-means.
separate_spatially_NoKMeans(entities) ==
    IF InitialGroups(entities, 1) = <<>> THEN Err
    ELSE CHOOSE result \in
             {AssignViews(TopThree(merged)) :
                 merged \in {MergeGroups(groups) :
                     groups \in {InitialGroups(entities, 1)}}} : TRUE

separate_spatially(entities) ==
    IF InitialGroups(entities, 1) = <<>> THEN Err
    ELSE CHOOSE result \in
             {AssignViews(TopThree(definitions)) :
                 definitions \in {Corrected(merged) :
                     merged \in {MergeGroups(groups) :
                         groups \in {InitialGroups(entities, 1)}}}} : TRUE

\* Mutation of SeparatedBy: the fallback is taken as soon as one view is
\* empty.
SeparatedBy_AnyEmpty(entities, xy, xz, yz) ==
    IF xy = <<>> \/ xz = <<>> \/ yz = <<>> THEN separate_spatially(entities)
    ELSE Ok(xy, xz, yz)

\* The end of separate_views: the spatial fallback when no layer matched.
SeparatedBy(entities, xy, xz, yz) ==
    IF xy = <<>> /\ xz = <<>> /\ yz = <<>> THEN separate_spatially(entities)
    ELSE Ok(xy, xz, yz)

separate_views(entities) ==
    SeparatedBy(entities, TaggedFrom(entities, "XY", 1),
                TaggedFrom(entities, "XZ", 1), TaggedFrom(entities, "YZ", 1))

-----------------------------------------------------------------------------
(* step_writer.rs.  The DATA section is a sequence of lines, each          *)
(* [id, keyword, refs, values]: refs the #ids the line names, in order,    *)
(* values its numbers.  A CARTESIAN_POINT carries its coordinates as       *)
(* printed; a DIRECTION carries the difference vector it normalises        *)
(* (<<1, 0, 0>> for a degenerate edge) and a VECTOR the square of the      *)
(* magnitude it prints.                                                    *)

StepLine(id, keyword, refs, values) ==
    [id |-> id, keyword |-> keyword, refs |-> refs, values |-> values]

\* `let mut id = 10;`
FirstId == 10

\* The AP214 boilerplate written before the geometry; #(FirstId + 8) is
\* reserved for the SHAPE_REPRESENTATION and written last.
Boilerplate ==
    << StepLine(FirstId, "APPLICATION_CONTEXT", <<>>, <<>>),
       StepLine(FirstId + 1, "APPLICATION_PROTOCOL_DEFINITION", <<FirstId>>, <<>>),
       StepLine(FirstId + 2, "PRODUCT_DEFINITION_CONTEXT", <<FirstId>>, <<>>),
       StepLine(FirstId + 3, "PRODUCT", <<FirstId + 2>>, <<>>),
       StepLine(FirstId + 4, "PRODUCT_DEFINITION_FORMATION", <<FirstId + 3>>, <<>>),
       StepLine(FirstId + 5, "PRODUCT_DEFINITION", <<FirstId + 4, FirstId + 2>>, <<>>),
       StepLine(FirstId + 6, "PRODUCT_DEFINITION_SHAPE", <<FirstId + 5>>, <<>>),
       StepLine(FirstId + 7, "SHAPE_DEFINITION_REPRESENTATION",
                <<FirstId + 6, FirstId + 8>>, <<>>),
       StepLine(FirstId + 9, "GEOMETRIC_REPRESENTATION_CONTEXT", <<>>, <<>>),
       StepLine(FirstId + 10, "GLOBAL_UNIT_ASSIGNED_CONTEXT",
                <<FirstId + 11, FirstId + 12, FirstId + 13, FirstId + 9>>, <<>>),
       StepLine(FirstId + 11, "LENGTH_UNIT", <<>>, <<>>),
       StepLine(FirstId + 12, "PLANE_ANGLE_UNIT", <<>>, <<>>),
       StepLine(FirstId + 13, "NAMED_UNIT", <<>>, <<>>) >>

\* The id of the first CARTESIAN_POINT.
GeometryId == FirstId + 14

\* Mutation of PointId: one id per row instead of two.
PointId_OnePerRow(i) == GeometryId + i

\* point_ids[i] for the Lambda index i (from 0).
PointId(i) == GeometryId + 2 * i

\* a, 0 <= a < 1, in millionths, rounded to the nearest (a half upwards);
\* the product by 10^6 is formed in two steps of 10^3.
Millionths(n, d) ==
    (((n * 1000) \div d) * 1000) + (((((n * 1000) % d) * 1000) * 2 + d) \div (2 * d))

\* format!("{:.6}", v): the sign, and the magnitude in millionths.
\* A value that is not finite is written as NaN, inf or -inf.
Fmt6(v) ==
    IF v[2] = 0
    THEN [negative |-> v[1] < 0, text |-> IF v[1] = 0 THEN "NaN" ELSE "inf"]
    ELSE [negative |-> v[1] < 0,
          millionths |-> (IAbs(v[1]) \div v[2]) * 1000000
                         + Millionths(IAbs(v[1]) % v[2], v[2])]

\* The CARTESIAN_POINT and VERTEX_POINT lines of the rows from the i-th on.
RECURSIVE PointLines(_, _)
PointLines(lam, i) ==
    IF i > Len(lam) THEN <<>>
    ELSE << StepLine(PointId(i - 1), "CARTESIAN_POINT", <<>>,
                     <<Fmt6(lam[i].p3.x), Fmt6(lam[i].p3.y), Fmt6(lam[i].p3.z)>>),
            StepLine(PointId(i - 1) + 1, "VERTEX_POINT", <<PointId(i - 1)>>, <<>>) >>
         \o PointLines(lam, i + 1)

Diff3(p, q) == <<RSub(q.x, p.x), RSub(q.y, p.y), RSub(q.z, p.z)>>

Mag2(d) == RAdd(RAdd(RMul(d[1], d[1]), RMul(d[2], d[2])), RMul(d[3], d[3]))

\* mag > 1e-9: false for the zero vector and for a vector with a NaN
\* component, true when one component alone exceeds 1e-9, else decided on
\* the squares.
MagPositive(d) ==
    /\ d # <<RZero, RZero, RZero>>
    /\ \A k \in 1..3 : ~is_nan(d[k])
    /\ \/ \E k \in 1..3 : RGt(RAbs(d[k]), <<1, 1000000000>>)
       \/ RGt(Mag2(d), RMul(<<1, 1000000000>>, <<1, 1000000000>>))

\* The four lines of one edge, dir_id the first of its four ids.
EdgeGroup(edge, d, dir_id) ==
    << StepLine(dir_id, "DIRECTION", <<>>,
                IF MagPositive(d) THEN d ELSE <<ROne, RZero, RZero>>),
       StepLine(dir_id + 1, "VECTOR", <<dir_id>>, <<Mag2(d)>>),
       StepLine(dir_id + 2, "LINE",
                <<PointId(edge.start_lambda_idx), dir_id + 1>>, <<>>),
       StepLine(dir_id + 3, "EDGE_CURVE",
                <<PointId(edge.start_lambda_idx) + 1,
                  PointId(edge.end_lambda_idx) + 1, dir_id + 2>>, <<>>) >>

\* The lines of the edges from the k-th on, in the order the set yields them.
RECURSIVE EdgeLines(_, _, _)
EdgeLines(lam, order, k) ==
    IF k > Len(order) THEN <<>>
    ELSE EdgeGroup(order[k],
                   Diff3(lam[order[k].start_lambda_idx + 1].p3,
                         lam[order[k].end_lambda_idx + 1].p3),
                   PointId(Len(lam)) + 4 * (k - 1))
         \o EdgeLines(lam, order, k + 1)

\* Mutation of ClosingLines: the set lists the LINE of each edge, not its
\* EDGE_CURVE.
ClosingLines_ListsLines(edge_base, edge_count) ==
    << StepLine(edge_base + 4 * edge_count, "GEOMETRIC_CURVE_SET",
                [k \in 1..edge_count |-> edge_base + 4 * (k - 1) + 2], <<>>),
       StepLine(FirstId + 8, "SHAPE_REPRESENTATION",
                <<edge_base + 4 * edge_count, FirstId + 10>>, <<>>) >>

\* The GEOMETRIC_CURVE_SET over the edge ids and the SHAPE_REPRESENTATION.
ClosingLines(edge_base, edge_count) ==
    << StepLine(edge_base + 4 * edge_count, "GEOMETRIC_CURVE_SET",
                [k \in 1..edge_count |-> edge_base + 4 * (k - 1) + 3], <<>>),
       StepLine(FirstId + 8, "SHAPE_REPRESENTATION",
                <<edge_base + 4 * edge_count, FirstId + 10>>, <<>>) >>

\* write_step(lambda, theta), order the sequence in which `for edge in theta`
\* yields the edges.
write_step(lam, order) ==
    Boilerplate \o PointLines(lam, 1) \o EdgeLines(lam, order, 1)
    \o ClosingLines(PointId(Len(lam)), Len(order))

\* The least edge of a set by (start_lambda_idx, end_lambda_idx).
LeastEdge(edges) ==
    CHOOSE e \in edges :
        \A f \in edges :
            \/ e.start_lambda_idx < f.start_lambda_idx
            \/ /\ e.start_lambda_idx = f.start_lambda_idx
               /\ e.end_lambda_idx <= f.end_lambda_idx

RECURSIVE Ascending(_)
Ascending(edges) ==
    IF edges = {} THEN <<>>
    ELSE <<LeastEdge(edges)>> \o Ascending(edges \ {LeastEdge(edges)})

Reversed(s) == [k \in 1..Len(s) |-> s[Len(s) + 1 - k]]

MaxPermutedEdges == 3

\* The iteration orders of a HashSet: every enumeration of a set of at most
\* MaxPermutedEdges edges; of a larger set the ascending and the descending
\* enumeration.
IterationOrders(edges) ==
    IF Cardinality(edges) <= MaxPermutedEdges
    THEN {order \in [1..Cardinality(edges) -> edges] :
             \A i, j \in 1..Cardinality(edges) : i # j => order[i] # order[j]}
    ELSE {Ascending(edges), Reversed(Ascending(edges))}

-----------------------------------------------------------------------------
(* lib.rs: reconstruct_solid, one action per call.                         *)

SeparateViews ==
    /\ pc = "start"
    /\ \E result \in {separate_views(drawing)} :
          /\ pc' = IF result.ok THEN "separated"
                   ELSE IF result.panic THEN "panicked" ELSE "failed"
          /\ v_xy' = IF result.ok THEN View2D(result.views[1]) ELSE v_xy
          /\ v_xz' = IF result.ok THEN View2D(result.views[2]) ELSE v_xz
          /\ v_yz' = IF result.ok THEN View2D(result.views[3]) ELSE v_yz
    /\ UNCHANGED <<core, drawing, shift_xy, shift_yz, lambda, theta, step, first_run>>

BuildTopologyXY ==
    /\ pc = "separated"
    /\ v_xy' = IF TopologyAborts(v_xy) THEN v_xy ELSE build_topology(v_xy)
    /\ pc' = IF TopologyAborts(v_xy) THEN "panicked" ELSE "built_xy"
    /\ UNCHANGED <<core, drawing, v_xz, v_yz, shift_xy, shift_yz, lambda, theta, step,
                   first_run>>

BuildTopologyXZ ==
    /\ pc = "built_xy"
    /\ v_xz' = IF TopologyAborts(v_xz) THEN v_xz ELSE build_topology(v_xz)
    /\ pc' = IF TopologyAborts(v_xz) THEN "panicked" ELSE "built_xz"
    /\ UNCHANGED <<core, drawing, v_xy, v_yz, shift_xy, shift_yz, lambda, theta, step,
                   first_run>>

BuildTopologyYZ ==
    /\ pc = "built_xz"
    /\ v_yz' = IF TopologyAborts(v_yz) THEN v_yz ELSE build_topology(v_yz)
    /\ pc' = IF TopologyAborts(v_yz) THEN "panicked" ELSE "views_built"
    /\ UNCHANGED <<core, drawing, v_xy, v_xz, shift_xy, shift_yz, lambda, theta, step,
                   first_run>>

WriteStep ==
    /\ pc = "reconstructed"
    /\ \E order \in IterationOrders(theta) : step' = write_step(lambda, order)
    /\ pc' = "written"
    /\ UNCHANGED <<core, drawing, v_xy, v_xz, v_yz, shift_xy, shift_yz, lambda, theta,
                   first_run>>

-----------------------------------------------------------------------------
(* Inputs of the lifter specification: three views as build_topology       *)
(* leaves them.  The vertices of a view are any sequence of at most        *)
(* MaxLiftVertices distinct points of its pool (ids are the positions), its *)
(* edges none, or the chain of consecutive vertices in either orientation. *)

MaxLiftVertices == 2

LiftPoolXY == <<P(0, 0), P(3, 0), P(1, 2)>>

LiftPoolXZ == <<P(1, 0), P(0, 0), P(0, 2)>>

LiftPoolYZ == <<P(0, 0), P(2, 1)>>

InjectiveSeqs(n, m) ==
    UNION {{f \in [1..k -> 1..n] : \A i, j \in 1..k : i # j => f[i] # f[j]} : k \in 0..m}

ChainEdges(n, forward) ==
    [k \in 1..(n - 1) |->
        IF forward THEN Edge2D(k - 1, k - 1, k, k) ELSE Edge2D(k - 1, k, k - 1, k)]

LiftViews(pool) ==
    UNION {{[raw_entities |-> <<>>,
             vertices |-> [i \in 1..Len(f) |-> Vertex2D(i - 1, pool[f[i]])],
             edges |-> es] :
               es \in IF Len(f) < 2 THEN {<<>>}
                      ELSE {<<>>, ChainEdges(Len(f), TRUE), ChainEdges(Len(f), FALSE)}} :
           f \in InjectiveSeqs(Len(pool), MaxLiftVertices)}

InitLifter ==
    /\ drawing = <<>>
    /\ v_xy \in LiftViews(LiftPoolXY)
    /\ v_xz \in LiftViews(LiftPoolXZ)
    /\ v_yz \in LiftViews(LiftPoolYZ)
    /\ shift_xy = Pt(RZero, RZero)
    /\ shift_yz = Pt(RZero, RZero)
    /\ lambda = <<>>
    /\ theta = {}
    /\ step = <<>>
    /\ first_run = <<>>
    /\ CoreIdle
    /\ pc = "views_built"

NextLifter == BuildReconstruction

SpecLifter == InitLifter /\ [][NextLifter]_vars

-----------------------------------------------------------------------------
(* Inputs of the pipeline specification: drawings of a 10 x 10 x 10 cube,  *)
(* one square of four lines per view.  The XY square has the entity ids    *)
(* 1..4, the XZ square 5..8 and the YZ square 9..12.                       *)

\* The four sides of the square with lower left corner (x, y): as a closed
\* chain, or out of order with mixed orientations.
SquareLines(x, y, chained) ==
    IF chained
    THEN << Line(P(x, y), P(x + 10, y)),
            Line(P(x + 10, y), P(x + 10, y + 10)),
            Line(P(x + 10, y + 10), P(x, y + 10)),
            Line(P(x, y + 10), P(x, y)) >>
    ELSE << Line(P(x, y + 10), P(x, y)),
            Line(P(x + 10, y), P(x, y)),
            Line(P(x, y + 10), P(x + 10, y + 10)),
            Line(P(x + 10, y), P(x + 10, y + 10)) >>

Square(corner, layer, first_id, chained) ==
    [k \in 1..4 |->
        Entity2D(first_id + k - 1, "Object", layer,
                 SquareLines(corner[1], corner[2], chained)[k])]

\* Corners of the three squares for which the centroids already agree:
\* XY at (a, b), XZ at (a, c), YZ at (b, c).
AlignedLayouts ==
    {<<<<a, b>>, <<a, c>>, <<b, c>>>> : a \in {0, 40}, b \in {0, 40}, c \in {0, 40}}

\* Third-angle sheets: front at the origin, top above it, right to its right,
\* with the given whitespace between the squares.
Gaps == {1, 11, 20}

ThirdAngleLayouts ==
    {<<<<0, 10 + gy>>, <<0, 0>>, <<10 + gx, 0>>>> : gx \in Gaps, gy \in Gaps}

\* Layer names of the three views that the keywords match ...
TaggedLayers ==
    { << <<<<"T", "O", "P">>>>, <<<<"F", "R", "O", "N", "T">>>>,
         <<<<"R", "I", "G", "H", "T">>>> >>,
      << <<<<"T", "o", "p">>>>, <<<<"f", "r", "o", "n", "t", "_", "1">>>>,
         <<<<"v", "_", "R", "i", "g", "h", "t">>>> >> }

\* ... and that no keyword matches: no layer, layer "0", layer "part".
UntaggedLayers ==
    { << <<>>, <<>>, <<>> >>,
      << <<<<"0">>>>, <<<<"0">>>>, <<<<"p", "a", "r", "t">>>> >> }

\* The three squares in the order XY, XZ, YZ, or side by side in turn.
Interleaving == <<1, 5, 9, 2, 6, 10, 3, 7, 11, 4, 8, 12>>

Squares(layout, layers, chained) ==
    Square(layout[1], layers[1], 1, chained)
    \o Square(layout[2], layers[2], 5, chained)
    \o Square(layout[3], layers[3], 9, chained)

\* A dimension entity across the whole sheet, on the layer of the XY view.
SheetDimension(layers) ==
    Entity2D(13, "Dimension", layers[1], Line(P(-100, -100), P(200, 200)))

CubeDrawing(layout, layers, chained, dimensioned) ==
    (IF dimensioned THEN <<SheetDimension(layers)>> ELSE <<>>)
    \o (IF chained THEN Squares(layout, layers, TRUE)
        ELSE [k \in 1..12 |-> Squares(layout, layers, FALSE)[Interleaving[k]]])

CubeDrawings(layouts, layerings) ==
    {CubeDrawing(layout, layers, chained, dimensioned) :
        layout \in layouts, layers \in layerings,
        chained \in BOOLEAN, dimensioned \in BOOLEAN}

\* Drawings without any geometry.
EmptyDrawings ==
    { <<>>,
      <<SheetDimension(<<<<>>, <<>>, <<>>>>)>>,
      << Entity2D(1, "Text", <<<<"T", "O", "P">>>>, Line(P(0, 0), P(10, 0))),
         Entity2D(2, "Dimension", <<<<"F", "R", "O", "N", "T">>>>,
                  Line(P(0, 0), P(0, 10))) >> }

Drawings ==
    CubeDrawings(AlignedLayouts \cup ThirdAngleLayouts,
                 TaggedLayers \cup UntaggedLayers)
    \cup EmptyDrawings

Init ==
    /\ drawing \in Drawings
    /\ v_xy = NoView
    /\ v_xz = NoView
    /\ v_yz = NoView
    /\ shift_xy = Pt(RZero, RZero)
    /\ shift_yz = Pt(RZero, RZero)
    /\ lambda = <<>>
    /\ theta = {}
    /\ step = <<>>
    /\ first_run = <<>>
    /\ CoreIdle
    /\ pc = "start"

Next ==
    \/ SeparateViews
    \/ BuildTopologyXY
    \/ BuildTopologyXZ
    \/ BuildTopologyYZ
    \/ BuildReconstruction
    \/ WriteStep

Spec == Init /\ [][Next]_vars

-----------------------------------------------------------------------------
(* Inputs of the view-separation specification: drawings of at most        *)
(* MaxTagEntities entities, each of any kind of TagKinds on any layer of   *)
(* TagLayers; the i-th entity is the i-th line of TagLines.                *)

MaxTagEntities == 3

TagKinds == {"Object", "Dimension", "Text"}

\* No layer, layers that name no view, and layers that name one or two.
TagLayers ==
    { <<>>,
      <<<<"0">>>>,
      <<<<"T", "o", "p">>>>,
      <<<<"f", "r", "o", "n", "t", "_", "x", "y">>>>,
      <<<<"F", "r", "o", "n", "t", "-", "y", "z">>>>,
      <<<<"x", "z", "-", "S", "i", "d", "e">>>>,
      <<<<"R", "I", "G", "H", "T">>>>,
      <<<<"y", "Z">>>> }

\* Lines far from each other: the first three laid out as top, front and
\* right, the fourth in the corner they leave free.
TagLines ==
    << Line(P(0, 30), P(10, 30)), Line(P(0, 0), P(10, 0)),
       Line(P(30, 0), P(40, 0)), Line(P(30, 30), P(40, 30)) >>

TagDrawing(kinds, layers) ==
    [i \in 1..Len(kinds) |-> Entity2D(i, kinds[i], layers[i], TagLines[i])]

InitTagging ==
    /\ \E n \in 0..MaxTagEntities :
          \E kinds \in [1..n -> TagKinds], layers \in [1..n -> TagLayers] :
              drawing = TagDrawing(kinds, layers)
    /\ v_xy = NoView
    /\ v_xz = NoView
    /\ v_yz = NoView
    /\ shift_xy = Pt(RZero, RZero)
    /\ shift_yz = Pt(RZero, RZero)
    /\ lambda = <<>>
    /\ theta = {}
    /\ step = <<>>
    /\ first_run = <<>>
    /\ CoreIdle
    /\ pc = "start"

NextTagging == SeparateViews

SpecTagging == InitTagging /\ [][NextTagging]_vars

-----------------------------------------------------------------------------
(* Inputs of the irregular-input specification: drawings of three          *)
(* entities, one at the place of each view, each of them regular or        *)
(* irregular in one of the ways of Irregularities, on layers that name the *)
(* three views or on no layer.                                             *)

\* A horizontal line of the top view and a vertical line of the front and
\* of the side view: after alignment every end point of the first meets
\* the end points of the other two.
IrregularLines ==
    << Line(P(0, 30), P(2, 30)), Line(P(0, 0), P(0, 10)),
       Line(P(30, 0), P(30, 10)) >>

Irregularities == {"regular", "nan_y", "nan_x", "inf_x", "circle"}

\* The line as it is, with y = NaN at both ends, with x = NaN at its first
\* end, with x = +inf at its second end, or a circle in its place.
Irregular(line, how) ==
    IF how = "nan_y"
    THEN Line(Pt(line.pts[1].x, NaN), Pt(line.pts[2].x, NaN))
    ELSE IF how = "nan_x" THEN Line(Pt(NaN, line.pts[1].y), line.pts[2])
    ELSE IF how = "inf_x" THEN Line(line.pts[1], Pt(Infinity, line.pts[2].y))
    ELSE IF how = "circle" THEN Circle(line.pts[1], ROne)
    ELSE line

IrregularLayers ==
    { << <<<<"T", "o", "p">>>>, <<<<"F", "r", "o", "n", "t">>>>,
         <<<<"S", "i", "d", "e">>>> >>,
      << <<>>, <<>>, <<>> >> }

IrregularDrawing(hows, layers) ==
    [i \in 1..3 |-> Entity2D(i, "Object", layers[i],
                             Irregular(IrregularLines[i], hows[i]))]

InitIrregular ==
    /\ \E hows \in [1..3 -> Irregularities], layers \in IrregularLayers :
          drawing = IrregularDrawing(hows, layers)
    /\ v_xy = NoView
    /\ v_xz = NoView
    /\ v_yz = NoView
    /\ shift_xy = Pt(RZero, RZero)
    /\ shift_yz = Pt(RZero, RZero)
    /\ lambda = <<>>
    /\ theta = {}
    /\ step = <<>>
    /\ first_run = <<>>
    /\ CoreIdle
    /\ pc = "start"

SpecIrregular == InitIrregular /\ [][Next]_vars

-----------------------------------------------------------------------------
(* Inputs of the emitter specification: every Lambda of at most            *)
(* MaxEmitRows rows over the points of EmitPoints, and every Theta over    *)
(* the pairs i < j of its indices, as build_theta_optimized inserts them.  *)

MaxEmitRows == 3

\* Two points on the x axis and one with fractional and negative
\* coordinates; a point may be the p3 of several rows.
EmitPoints ==
    { Point3(RZero, RZero, RZero), Point3(ROne, RZero, RZero),
      Point3(<<1, 3>>, <<-5, 2>>, RInt(10)) }

EmitPairs(n) ==
    {ThetaEdge(ij[1], ij[2]) :
        ij \in {ij \in (0..(n - 1)) \X (0..(n - 1)) : ij[1] < ij[2]}}

\* The rows of Lambda for the points pts; write_step reads only p3.
EmitRows(pts) == [i \in 1..Len(pts) |-> LambdaRow(pts[i], 0, 0, 0)]

InitEmitter ==
    /\ drawing = <<>>
    /\ v_xy = NoView
    /\ v_xz = NoView
    /\ v_yz = NoView
    /\ shift_xy = Pt(RZero, RZero)
    /\ shift_yz = Pt(RZero, RZero)
    /\ \E n \in 0..MaxEmitRows :
          \E pts \in [1..n -> EmitPoints], edges \in SUBSET EmitPairs(n) :
              /\ lambda = EmitRows(pts)
              /\ theta = edges
    /\ step = <<>>
    /\ first_run = <<>>
    /\ CoreIdle
    /\ pc = "reconstructed"

NextEmitter == WriteStep

SpecEmitter == InitEmitter /\ [][NextEmitter]_vars

-----------------------------------------------------------------------------
(* Properties of a view after build_topology.                              *)

TopoDone == pc \in {"topo_built", "topo_rebuilt"}

EdgeEnds(e) == {e.start, e.end}

SimpleGraph(view) ==
    \A i, j \in 1..Len(view.edges) :
        i # j => EdgeEnds(view.edges[i]) # EdgeEnds(view.edges[j])

NoSelfLoop(view) == \A i \in 1..Len(view.edges) : view.edges[i].start # view.edges[i].end

VerticesApart(view) ==
    \A i, j \in 1..Len(view.vertices) :
        i # j => ~NormLt(PSub(view.vertices[i].point, view.vertices[j].point), EPSILON)

RawSegments(view) == extract_segments(view.raw_entities)

VertexPositions(vertices) == {vertices[i].point : i \in 1..Len(vertices)}

\* The edges as unordered pairs of positions.
EdgePositions(vertices, edges) ==
    {{vertices[edges[i].start + 1].point, vertices[edges[i].end + 1].point} :
        i \in 1..Len(edges)}

\* C1: after build_topology no two distinct edges of the view share the same
\* unordered endpoint pair (the edge set is a simple graph).  The code pushes
\* one edge per final segment and never compares it with the edges already
\* pushed, so this is violated.
C1_SimpleGraph == TopoDone => SimpleGraph(v_xy)

\* C2: after build_topology every edge has start # end, also when a segment
\* is of zero length or shorter than EPSILON.
C2_NoSelfLoop == TopoDone => NoSelfLoop(v_xy)

C2_Witness ==
    /\ pc = "topo_built"
    /\ \E i \in 1..Len(RawSegments(v_xy)) :
          NormLt(PSub(RawSegments(v_xy)[i].p1, RawSegments(v_xy)[i].p2), EPSILON)
    /\ Len(v_xy.edges) >= 2

\* C3: after build_topology any two vertices with different ids are at
\* distance >= EPSILON from each other.
C3_VerticesApart == TopoDone => VerticesApart(v_xy)

C3_Witness ==
    /\ pc = "topo_built"
    /\ \E i, j \in 1..Len(RawSegments(v_xy)) :
          /\ RawSegments(v_xy)[i].p1 # RawSegments(v_xy)[j].p2
          /\ NormLt(PSub(RawSegments(v_xy)[i].p1, RawSegments(v_xy)[j].p2), EPSILON)
    /\ Len(v_xy.vertices) >= 3

\* C4: a second run of build_topology on the same view yields the same set of
\* vertex positions and the same set of edges (as unordered pairs of
\* positions) as the first run.
C4_Idempotent ==
    pc = "topo_rebuilt" =>
        /\ VertexPositions(v_xy.vertices) = VertexPositions(first_run[1])
        /\ EdgePositions(v_xy.vertices, v_xy.edges)
               = EdgePositions(first_run[1], first_run[2])

C4_Witness ==
    /\ pc = "topo_rebuilt"
    /\ Len(v_xy.edges) > Len(RawSegments(v_xy))
    /\ Len(first_run[1]) >= 5

-----------------------------------------------------------------------------
(* C10: two segments crossing at one point interior to both.               *)

Sign(a) == IF a[1] > 0 THEN 1 ELSE IF a[1] < 0 THEN -1 ELSE 0

\* On which side of the line through a and b the point c lies.
Side(a, b, c) == Sign(perp_dot(PSub(b, a), PSub(c, a)))

\* The segments cross at a single point strictly inside both.
ProperCrossing(s1, s2) ==
    /\ Side(s1.p1, s1.p2, s2.p1) * Side(s1.p1, s1.p2, s2.p2) = -1
    /\ Side(s2.p1, s2.p2, s1.p1) * Side(s2.p1, s2.p2, s1.p2) = -1

CrossingPoint(s1, s2) ==
    LET r == PSub(s1.p2, s1.p1)
        s == PSub(s2.p2, s2.p1)
    IN  PAdd(s1.p1, PScale(r, RDiv(perp_dot(PSub(s2.p1, s1.p1), s), perp_dot(r, s))))

TwoCrossingSegments(view) ==
    /\ Len(RawSegments(view)) = 2
    /\ ProperCrossing(RawSegments(view)[1], RawSegments(view)[2])

\* 5 vertices (the 4 end points and the crossing point) and 4 edges, each
\* joining the crossing point to one end point of the segment whose entity id
\* it carries, the 4 edges reaching the 4 end points.
CrossingSplit(view) ==
    LET segs == RawSegments(view)
        x    == CrossingPoint(segs[1], segs[2])
        Ends(id) == UNION {{segs[k].p1, segs[k].p2} : k \in {n \in 1..2 : segs[n].original_id = id}}
        Far(e) == CHOOSE q \in {view.vertices[e.start + 1].point,
                                view.vertices[e.end + 1].point} :
                      q # x \/ view.vertices[e.start + 1].point = view.vertices[e.end + 1].point
    IN  /\ Len(view.vertices) = 5
        /\ Len(view.edges) = 4
        /\ VertexPositions(view.vertices)
               = {x, segs[1].p1, segs[1].p2, segs[2].p1, segs[2].p2}
        /\ \A i \in 1..4 :
              /\ x \in {view.vertices[view.edges[i].start + 1].point,
                        view.vertices[view.edges[i].end + 1].point}
              /\ Far(view.edges[i]) \in Ends(view.edges[i].original_entity_id)
        /\ {Far(view.edges[i]) : i \in 1..4}
               = {segs[1].p1, segs[1].p2, segs[2].p1, segs[2].p2}

\* The crossing is one the code detects and keeps apart from the end points:
\* the segments are not parallel by the EPSILON test on perp_dot, the crossing
\* point is farther than EPSILON from each end point, and the 4 end points are
\* pairwise at least EPSILON apart.
SplittableCrossing(view) ==
    LET segs == RawSegments(view)
        x    == CrossingPoint(segs[1], segs[2])
        ends == <<segs[1].p1, segs[1].p2, segs[2].p1, segs[2].p2>>
    IN  /\ RGe(RAbs(perp_dot(PSub(segs[1].p2, segs[1].p1), PSub(segs[2].p2, segs[2].p1))),
               EPSILON)
        /\ \A k \in 1..4 : NormGt(PSub(ends[k], x), EPSILON)
        /\ \A k, l \in 1..4 : k # l => ~NormLt(PSub(ends[k], ends[l]), EPSILON)

\* C10 as stated: whenever a view holds exactly two segments that cross at
\* one point interior to both, build_topology yields 5 vertices and 4 edges.
C10_Original ==
    (pc = "topo_built" /\ TwoCrossingSegments(v_xy)) => CrossingSplit(v_xy)

\* C10, amended: when a view holds exactly two segments that cross at one
\* point interior to both, |perp_dot(r, s)| >= EPSILON, the crossing point is
\* farther than EPSILON from each of the 4 end points and the end points are
\* pairwise at least EPSILON apart, build_topology yields exactly 5 vertices
\* (the 4 end points and the crossing point) and 4 edges, each joining the
\* crossing point to an end point and keeping the entity id of its segment.
C10_CrossingSplit ==
    (pc = "topo_built" /\ TwoCrossingSegments(v_xy) /\ SplittableCrossing(v_xy))
        => CrossingSplit(v_xy)

C10_Witness ==
    /\ pc = "topo_built"
    /\ TwoCrossingSegments(v_xy)
    /\ SplittableCrossing(v_xy)
    /\ RawSegments(v_xy)[1].p1 = P(0, 0)
    /\ RawSegments(v_xy)[2].p1 = P(0, 10)
    /\ Len(v_xy.vertices) = 5

-----------------------------------------------------------------------------
(* Properties of Lambda and Theta after build_reconstruction.              *)

Reconstructed == pc \in {"reconstructed", "written"}

VertexOf(view, id) == view.vertices[id + 1]

Within(a, b) == RLe(RAbs(RSub(a, b)), MATCH_TOLERANCE)

\* The three agreements of a triple of vertices under the shifts.
AgreeX(v1, v2)  == Within(RAdd(v1.point.x, shift_xy.x), v2.point.x)

AgreeY(v1, v3)  == Within(v1.point.y, RAdd(v3.point.x, shift_yz.x))

AgreeZ(v2, v3)  == Within(v2.point.y, RAdd(v3.point.y, shift_yz.y))

RowSound(row) ==
    LET v1 == VertexOf(v_xy, row.v_xy_id)
        v2 == VertexOf(v_xz, row.v_xz_id)
        v3 == VertexOf(v_yz, row.v_yz_id)
        g  == row.p3
    IN  /\ Within(g.x, v2.point.x)
        /\ Within(g.y, RAdd(v3.point.x, shift_yz.x))
        /\ Within(g.z, RAdd(v3.point.y, shift_yz.y))
        /\ g = Point3(RAdd(v1.point.x, shift_xy.x), v1.point.y, v2.point.y)

\* C5: every row of Lambda has its 3D point g = (v_xy.x + shift_xy.x, v_xy.y,
\* v_xz.y) within MATCH_TOLERANCE of the XZ vertex in x and of the shifted YZ
\* vertex in y and z; a triple failing one of the agreements is not emitted.
C5_LifterSound ==
    Reconstructed => \A k \in 1..Len(lambda) : RowSound(lambda[k])

\* A row whose YZ agreement sits on the tolerance, and a triple left out
\* because only its z agreement fails.
C5_Witness ==
    /\ pc = "reconstructed"
    /\ Len(lambda) >= 2
    /\ \E v1 \in 1..Len(v_xy.vertices), v2 \in 1..Len(v_xz.vertices),
          v3 \in 1..Len(v_yz.vertices) :
          /\ AgreeX(v_xy.vertices[v1], v_xz.vertices[v2])
          /\ AgreeY(v_xy.vertices[v1], v_yz.vertices[v3])
          /\ ~AgreeZ(v_xz.vertices[v2], v_yz.vertices[v3])

\* In one view, two rows name the same vertex or the two ends of an edge.
Supported(view, id1, id2) ==
    \/ id1 = id2
    \/ \E k \in 1..Len(view.edges) :
          \/ (view.edges[k].start = id1 /\ view.edges[k].end = id2)
          \/ (view.edges[k].start = id2 /\ view.edges[k].end = id1)

PairSupported(i, j) ==
    /\ Supported(v_xy, lambda[i].v_xy_id, lambda[j].v_xy_id)
    /\ Supported(v_xz, lambda[i].v_xz_id, lambda[j].v_xz_id)
    /\ Supported(v_yz, lambda[i].v_yz_id, lambda[j].v_yz_id)

\* C6: for i < j the pair (i, j) is in Theta iff in each of the three views
\* the two rows' vertex ids are equal or form an edge of the view in either
\* orientation; Theta holds no other pair.
C6_ThetaExact ==
    Reconstructed =>
        theta = {ThetaEdge(i - 1, j - 1) : <<i, j>> \in
                    {ij \in (1..Len(lambda)) \X (1..Len(lambda)) :
                        ij[1] < ij[2] /\ PairSupported(ij[1], ij[2])}}

\* A pair kept through an edge stored end-before-start, and a pair left out.
C6_Witness ==
    /\ pc = "reconstructed"
    /\ \E e \in theta :
          \E k \in 1..Len(v_xy.edges) :
              /\ v_xy.edges[k].start > v_xy.edges[k].end
              /\ v_xy.edges[k].end = lambda[e.start_lambda_idx + 1].v_xy_id
              /\ v_xy.edges[k].start = lambda[e.end_lambda_idx + 1].v_xy_id
    /\ Cardinality(theta) < (Len(lambda) * (Len(lambda) - 1)) \div 2

\* Lexicographic order on triples of integers.
LexLess(a, b) ==
    \/ a[1] < b[1]
    \/ a[1] = b[1] /\ a[2] < b[2]
    \/ a[1] = b[1] /\ a[2] = b[2] /\ a[3] < b[3]

\* C7 as stated: the rows appear in the order of the XY vertices, then in
\* increasing XZ vertex id, then in increasing YZ vertex id.
C7_Original ==
    Reconstructed =>
        \A i, j \in 1..Len(lambda) :
            i < j => LexLess(<<lambda[i].v_xy_id, lambda[i].v_xz_id, lambda[i].v_yz_id>>,
                             <<lambda[j].v_xy_id, lambda[j].v_xz_id, lambda[j].v_yz_id>>)

\* v comes before w in the view's vertices sorted by x (ties by id).
BeforeByX(view, id1, id2) ==
    \/ RLt(VertexOf(view, id1).point.x, VertexOf(view, id2).point.x)
    \/ VertexOf(view, id1).point.x = VertexOf(view, id2).point.x /\ id1 < id2

\* C7, amended: the rows appear in the order of the XY vertices; among rows
\* of one XY vertex in increasing x of the XZ vertex (ties by increasing id);
\* among rows of one XY and one XZ vertex in increasing x of the YZ vertex
\* (ties by increasing id).
C7_LambdaOrder ==
    Reconstructed =>
        \A i, j \in 1..Len(lambda) :
            i < j =>
                \/ lambda[i].v_xy_id < lambda[j].v_xy_id
                \/ /\ lambda[i].v_xy_id = lambda[j].v_xy_id
                   /\ BeforeByX(v_xz, lambda[i].v_xz_id, lambda[j].v_xz_id)
                \/ /\ lambda[i].v_xy_id = lambda[j].v_xy_id
                   /\ lambda[i].v_xz_id = lambda[j].v_xz_id
                   /\ BeforeByX(v_yz, lambda[i].v_yz_id, lambda[j].v_yz_id)

\* Two rows of one XY vertex whose XZ vertices come in decreasing id.
C7_Witness ==
    /\ pc = "reconstructed"
    /\ \E i, j \in 1..Len(lambda) :
          /\ i < j
          /\ lambda[i].v_xy_id = lambda[j].v_xy_id
          /\ lambda[i].v_xz_id > lambda[j].v_xz_id
    /\ \E i, j \in 1..Len(lambda) :
          /\ i < j
          /\ lambda[i].v_xy_id = lambda[j].v_xy_id
          /\ lambda[i].v_xz_id = lambda[j].v_xz_id
          /\ lambda[i].v_yz_id # lambda[j].v_yz_id

-----------------------------------------------------------------------------
(* The cube scenarios of the pipeline specification.                       *)

\* The drawings of three squares and nothing else, on the given layers.
ThreeSquares(layouts, layerings) ==
    {CubeDrawing(layout, layers, chained, FALSE) :
        layout \in layouts, layers \in layerings, chained \in BOOLEAN}

TaggedCubes == ThreeSquares(AlignedLayouts \cup ThirdAngleLayouts, TaggedLayers)

UntaggedSheets == ThreeSquares(ThirdAngleLayouts, UntaggedLayers)

ZeroShifts == shift_xy = Pt(RZero, RZero) /\ shift_yz = Pt(RZero, RZero)

LiftedPoints == {lambda[i].p3 : i \in 1..Len(lambda)}

\* The corners of the cube of side 10 whose least corner is (a, b, c).
CubeCorners(a, b, c) ==
    {Point3(RInt(x), RInt(y), RInt(z)) :
        x \in {a, a + 10}, y \in {b, b + 10}, z \in {c, c + 10}}

\* The number of coordinates in which two lifted points differ.
Differing(p, q) ==
    (IF p.x = q.x THEN 0 ELSE 1) + (IF p.y = q.y THEN 0 ELSE 1)
    + (IF p.z = q.z THEN 0 ELSE 1)

\* The corner sets of the cubes the drawings show.
Cubes == {CubeCorners(a, b, c) : a \in {0, 40}, b \in {0, 11, 21, 30, 40}, c \in {0, 40}}

\* Lambda is the 8 corners of a cube, Theta its 12 edges: 12 pairs of rows
\* that differ in one coordinate only, so none of them is a diagonal.
CubeWireframe ==
    /\ Len(lambda) = 8
    /\ Cardinality(theta) = 12
    /\ LiftedPoints \in Cubes
    /\ \A e \in theta :
          Differing(lambda[e.start_lambda_idx + 1].p3,
                    lambda[e.end_lambda_idx + 1].p3) = 1

\* The number of lines of the emitted STEP text with the keyword.
CountLines(keyword) ==
    Cardinality({i \in 1..Len(step) : step[i].keyword = keyword})

\* C8: for three 10 x 10 squares of four lines each on layers tagged TOP,
\* FRONT and RIGHT, placed so that both alignment shifts are zero, the
\* reconstruction has 8 rows in Lambda, the corners of the cube, and 12
\* edges in Theta, none a diagonal, and the STEP text written from them has
\* exactly 8 VERTEX_POINT lines and 12 EDGE_CURVE lines.
C8_TaggedCube ==
    (drawing \in TaggedCubes /\ Reconstructed /\ ZeroShifts) =>
        /\ CubeWireframe
        /\ pc = "written" =>
              /\ CountLines("VERTEX_POINT") = 8
              /\ CountLines("EDGE_CURVE") = 12

\* A tagged cube away from the origin, its squares drawn out of order,
\* lifted with zero shifts and written.
C8_Witness ==
    /\ drawing \in {CubeDrawing(<<<<40, 0>>, <<40, 40>>, <<0, 40>>>>, layers,
                                 FALSE, FALSE) : layers \in TaggedLayers}
    /\ ZeroShifts
    /\ pc = "written"
    /\ Len(lambda) = 8
    /\ CountLines("EDGE_CURVE") = 12

\* The entity ids of the raw entities of a view.
RawIds(view) == {view.raw_entities[i].id : i \in 1..Len(view.raw_entities)}

Separated == pc \notin {"start", "failed"}

\* No entity of the drawing is on a layer that names a view.
NoLayerMatches ==
    /\ TaggedFrom(drawing, "XY", 1) = <<>>
    /\ TaggedFrom(drawing, "XZ", 1) = <<>>
    /\ TaggedFrom(drawing, "YZ", 1) = <<>>

\* The groups separate_spatially is left with before it assigns the roles.
SpatialGroups == TopThree(Corrected(MergeGroups(InitialGroups(drawing, 1))))

\* C9: for the same three squares on layers that name no view, laid out
\* third-angle with whitespace between the views, separate_views does not
\* fail, no entity is tagged by its layer, the spatial fallback is left with
\* exactly three groups, the upper square becomes the XY view, the lower
\* left the XZ view and the lower right the YZ view, and the reconstruction
\* has 8 rows in Lambda and 12 edges in Theta, the cube's.
C9_SpatialCube ==
    drawing \in UntaggedSheets =>
        /\ pc # "failed"
        /\ NoLayerMatches
        /\ pc = "separated" =>
              /\ Len(SpatialGroups) = 3
              /\ RawIds(v_xy) = 1..4
              /\ RawIds(v_xz) = 5..8
              /\ RawIds(v_yz) = 9..12
        /\ Reconstructed => CubeWireframe

\* An untagged sheet whose squares are so close that they merge into one
\* group before k-means, separated and reconstructed.
C9_Witness ==
    /\ drawing \in UntaggedSheets
    /\ Len(MergeGroups(InitialGroups(drawing, 1))) = 1
    /\ RawIds(v_xy) = 1..4
    /\ pc = "reconstructed"
    /\ Len(lambda) = 8
    /\ Cardinality(theta) = 12

-----------------------------------------------------------------------------
(* The degenerate polyline.                                                *)

\* The unique_points list build_topology ended with.
VertexPositionsSeq(view) ==
    [i \in 1..Len(view.vertices) |-> view.vertices[i].point]

\* The k-th vertex of the polyline lies closer than EPSILON to the vertex
\* before it, so the segment between the two is degenerate.
DuplicateAt(k) ==
    NormLt(PSub(drawing[1].primitive.pts[k], drawing[1].primitive.pts[k - 1]),
           EPSILON)

\* The two ends of the degenerate segment were given one vertex id, which
\* is when the snap loop pushes no edge for an unsplit segment.
NoEdgeFor(k) ==
    PointIndex(drawing[1].primitive.pts[k - 1], VertexPositionsSeq(v_xy))
        = PointIndex(drawing[1].primitive.pts[k], VertexPositionsSeq(v_xy))

\* C11: for a polyline with two consecutive vertices closer than EPSILON,
\* build_topology emits no edge for the degenerate segment between them, and
\* the vertices and edges of the view are those of the polyline with the
\* duplicate (the later of the two vertices) removed.
C11_DuplicateDropped ==
    (pc = "deg_reduced" /\ DuplicateAt(first_run[1])) =>
        /\ NoEdgeFor(first_run[1])
        /\ VertexPositions(v_xy.vertices) = VertexPositions(v_xz.vertices)
        /\ EdgePositions(v_xy.vertices, v_xy.edges)
               = EdgePositions(v_xz.vertices, v_xz.edges)

-----------------------------------------------------------------------------
(* Failures of the pipeline.                                               *)

\* Every entity of the drawing, if any, is a dimension or a text.
NoGeometry ==
    \A i \in 1..Len(drawing) : drawing[i].kind \in {"Dimension", "Text"}

\* No stage after separate_views has run: the views were never made, nothing
\* was lifted and no STEP text exists.
NothingBuilt ==
    /\ v_xy = NoView /\ v_xz = NoView /\ v_yz = NoView
    /\ lambda = <<>> /\ theta = {}
    /\ step = <<>>

\* C12: when the drawing has no entity other than dimensions and texts (the
\* drawing without entities included), reconstruct_solid fails in
\* separate_views: build_topology, build_reconstruction and write_step are
\* never reached and no STEP text is produced.
C12_EmptyDrawing ==
    NoGeometry => (pc \in {"start", "failed"} /\ NothingBuilt)

\* A drawing of a text and a dimension on layers that name views, refused.
C12_Witness ==
    /\ pc = "failed"
    /\ Len(drawing) = 2
    /\ NoGeometry
    /\ PlaneOfLayer(LayerOf(drawing[1])) = "XY"

-----------------------------------------------------------------------------
(* The result of separate_views.                                           *)

\* C13: whenever separate_views succeeds, on the layer-tagging path as on
\* the spatial fallback, each of the three views it returns holds at least
\* one raw entity; with fewer than three non-empty groups it fails.
C13_ThreeViews ==
    pc = "separated" =>
        /\ v_xy.raw_entities # <<>>
        /\ v_xz.raw_entities # <<>>
        /\ v_yz.raw_entities # <<>>

\* The character c is the letter k (given in upper case) in either case.
SameLetter(c, k) ==
    c = k \/ \E n \in 1..26 : UpperCase[n] = k /\ LowerCase[n] = c

\* The layer name of the entity, if it has one, contains the keyword,
\* whatever the case of its letters.
Mentions(e, keyword) ==
    /\ e.layer # <<>>
    /\ \E off \in 0..(Len(e.layer[1]) - Len(keyword)) :
          \A j \in 1..Len(keyword) : SameLetter(e.layer[1][off + j], keyword[j])

\* The view the entity belongs to by its kind and layer name.
ViewNamed(e) ==
    IF e.kind \in {"Dimension", "Text"} THEN "none"
    ELSE IF Mentions(e, <<"X", "Y">>) \/ Mentions(e, <<"T", "O", "P">>) THEN "XY"
    ELSE IF Mentions(e, <<"X", "Z">>) \/ Mentions(e, <<"F", "R", "O", "N", "T">>)
    THEN "XZ"
    ELSE IF Mentions(e, <<"Y", "Z">>) \/ Mentions(e, <<"R", "I", "G", "H", "T">>)
            \/ Mentions(e, <<"S", "I", "D", "E">>)
    THEN "YZ"
    ELSE "none"

\* The entities of the drawing that belong to the view, in input order.
NamedFor(view) == SelectSeq(drawing, LAMBDA e : ViewNamed(e) = view)

\* Some entity of the drawing is tagged: the primary path is taken.
PrimaryPath == \E i \in 1..Len(drawing) : ViewNamed(drawing[i]) # "none"

\* C14: on the primary path separate_views succeeds and each view holds, in
\* input order, exactly the entities that are neither dimension nor text
\* and whose layer name contains, in any case, XY or TOP (XY view);
\* otherwise XZ or FRONT (XZ view); otherwise YZ, RIGHT or SIDE (YZ view).
\* Entities on other layers or on no layer, dimensions and texts are in no
\* view.
C14_LayerTagging ==
    (PrimaryPath /\ pc # "start") =>
        /\ pc = "separated"
        /\ v_xy.raw_entities = NamedFor("XY")
        /\ v_xz.raw_entities = NamedFor("XZ")
        /\ v_yz.raw_entities = NamedFor("YZ")

\* Two entities kept in input order in the XY view, the first on a layer
\* that names FRONT as well, around a dimension on layer Top that is left
\* out.
C14_Witness ==
    /\ pc = "separated"
    /\ Len(drawing) = 3
    /\ Mentions(drawing[1], <<"F", "R", "O", "N", "T">>)
    /\ drawing[2].kind = "Dimension" /\ Mentions(drawing[2], <<"T", "O", "P">>)
    /\ v_xy.raw_entities = <<drawing[1], drawing[3]>>

-----------------------------------------------------------------------------
(* Irregular inputs: non-finite coordinates.                               *)

\* C15: whatever the coordinates of the drawing's entities, NaN and
\* infinite ones included, no stage of reconstruct_solid panics: each of
\* separate_views, build_topology, build_reconstruction and write_step
\* returns a success or a failure value.
C15_NoPanic == pc # "panicked"

\* The vertex of the view with the given id has finite coordinates.
FiniteVertex(view, id) ==
    /\ is_finite(view.vertices[id + 1].point.x)
    /\ is_finite(view.vertices[id + 1].point.y)

\* C16: no vertex with a non-finite coordinate, of the XY, the XZ or the YZ
\* view, contributes to a row of Lambda, and the 3D point of every row has
\* finite x, y and z.
C16_FiniteRows ==
    Reconstructed =>
        \A i \in 1..Len(lambda) :
            /\ FiniteVertex(v_xy, lambda[i].v_xy_id)
            /\ FiniteVertex(v_xz, lambda[i].v_xz_id)
            /\ FiniteVertex(v_yz, lambda[i].v_yz_id)
            /\ is_finite(lambda[i].p3.x)
            /\ is_finite(lambda[i].p3.y)
            /\ is_finite(lambda[i].p3.z)

-----------------------------------------------------------------------------
(* Properties of the text written by write_step.                           *)

\* The lines of the text with the given keyword, in the order written.
LinesOf(keyword) == SelectSeq(step, LAMBDA l : l.keyword = keyword)

\* The VERTEX_POINT of the row with index i (from 0): rows are written in
\* the order of Lambda, one CARTESIAN_POINT and one VERTEX_POINT each.
VertexPointOf(i) == LinesOf("VERTEX_POINT")[i + 1].id

\* The Theta pair an EDGE_CURVE line stands for, by its two VERTEX_POINTs.
PairOf(line) ==
    CHOOSE e \in EmitPairs(Len(lambda)) \cup {ThetaEdge(-1, -1)} :
        \/ /\ e.start_lambda_idx >= 0
           /\ VertexPointOf(e.start_lambda_idx) = line.refs[1]
           /\ VertexPointOf(e.end_lambda_idx) = line.refs[2]
        \/ /\ e.start_lambda_idx < 0
           /\ \A f \in EmitPairs(Len(lambda)) :
                 \/ VertexPointOf(f.start_lambda_idx) # line.refs[1]
                 \/ VertexPointOf(f.end_lambda_idx) # line.refs[2]

EdgeBefore(e, f) ==
    \/ e.start_lambda_idx < f.start_lambda_idx
    \/ /\ e.start_lambda_idx = f.start_lambda_idx
       /\ e.end_lambda_idx < f.end_lambda_idx

\* C17: write_step emits the edges of Theta in ascending order of
\* (start_lambda_idx, end_lambda_idx): the EDGE_CURVE lines, and with them
\* the id list of the GEOMETRIC_CURVE_SET, follow that order whatever the
\* iteration order of the set.
C17_AscendingEdges ==
    pc = "written" =>
        /\ \A i, j \in 1..Len(LinesOf("EDGE_CURVE")) :
              i < j => EdgeBefore(PairOf(LinesOf("EDGE_CURVE")[i]),
                                  PairOf(LinesOf("EDGE_CURVE")[j]))
        /\ \A m \in 1..Len(LinesOf("GEOMETRIC_CURVE_SET")) :
              LinesOf("GEOMETRIC_CURVE_SET")[m].refs
                  = [k \in 1..Len(LinesOf("EDGE_CURVE")) |->
                        LinesOf("EDGE_CURVE")[k].id]

\* The coordinates of a row as format!("{:.6}") writes them.
Written(p3) == <<Fmt6(p3.x), Fmt6(p3.y), Fmt6(p3.z)>>

\* The k-th CARTESIAN_POINT and VERTEX_POINT are those of the k-th row.
PointsOfRows ==
    /\ Len(LinesOf("CARTESIAN_POINT")) = Len(lambda)
    /\ Len(LinesOf("VERTEX_POINT")) = Len(lambda)
    /\ \A k \in 1..Len(lambda) :
          /\ LinesOf("CARTESIAN_POINT")[k].values = Written(lambda[k].p3)
          /\ LinesOf("VERTEX_POINT")[k].refs = <<LinesOf("CARTESIAN_POINT")[k].id>>

\* The number of EDGE_CURVE lines between the VERTEX_POINTs of the pair.
CurvesOf(e) ==
    Cardinality({k \in 1..Len(LinesOf("EDGE_CURVE")) :
                    /\ LinesOf("EDGE_CURVE")[k].refs[1]
                           = VertexPointOf(e.start_lambda_idx)
                    /\ LinesOf("EDGE_CURVE")[k].refs[2]
                           = VertexPointOf(e.end_lambda_idx)})

\* C18: write_step emits one CARTESIAN_POINT and one VERTEX_POINT per row
\* of Lambda, one DIRECTION, VECTOR, LINE and EDGE_CURVE per pair of Theta,
\* each EDGE_CURVE between the VERTEX_POINTs of the two rows of its pair,
\* and one GEOMETRIC_CURVE_SET whose members are exactly the ids of the
\* EDGE_CURVEs.
C18_Cardinality ==
    pc = "written" =>
        /\ PointsOfRows
        /\ Len(LinesOf("DIRECTION")) = Cardinality(theta)
        /\ Len(LinesOf("VECTOR")) = Cardinality(theta)
        /\ Len(LinesOf("LINE")) = Cardinality(theta)
        /\ Len(LinesOf("EDGE_CURVE")) = Cardinality(theta)
        /\ \A e \in theta : CurvesOf(e) = 1
        /\ Len(LinesOf("GEOMETRIC_CURVE_SET")) = 1
        /\ Len(LinesOf("GEOMETRIC_CURVE_SET")[1].refs) = Cardinality(theta)
        /\ {LinesOf("GEOMETRIC_CURVE_SET")[1].refs[k] : k \in 1..Cardinality(theta)}
               = {LinesOf("EDGE_CURVE")[k].id : k \in 1..Cardinality(theta)}

\* Three rows, two of them at one point, and all three pairs, written in
\* an order that is not the ascending one.
C18_Witness ==
    /\ pc = "written"
    /\ Len(lambda) = 3
    /\ lambda[1].p3 = lambda[2].p3
    /\ Cardinality(theta) = 3
    /\ ~C17_AscendingEdges

\* C19: the entity ids of the text start at 10 and are dense: the least
\* is 10, every id from 10 to the greatest is defined exactly once, and
\* every id an entity refers to is defined in the text.
C19_DenseIds ==
    pc = "written" =>
        /\ \A i, j \in 1..Len(step) : i # j => step[i].id # step[j].id
        /\ {step[i].id : i \in 1..Len(step)} = 10..(10 + Len(step) - 1)
        /\ \A i \in 1..Len(step) : \A k \in 1..Len(step[i].refs) :
              \E j \in 1..Len(step) : step[j].id = step[i].refs[k]

\* A text with points and edges, whose SHAPE_REPRESENTATION #18 comes last
\* and refers to the GEOMETRIC_CURVE_SET, the entity of the greatest id.
C19_Witness ==
    /\ pc = "written"
    /\ Len(lambda) = 3
    /\ Cardinality(theta) = 2
    /\ step[Len(step)].id = 18
    /\ step[Len(step)].refs[1] = 10 + Len(step) - 1

-----------------------------------------------------------------------------
(* Views without vertices.                                                 *)

\* The three calls of build_topology are over and one of the views has no
\* vertex.
DegenerateView ==
    /\ pc \in {"views_built", "reconstructed", "written"}
    /\ \/ v_xy.vertices = <<>>
       \/ v_xz.vertices = <<>>
       \/ v_yz.vertices = <<>>

\* The shifts when two of the centroids are those of views without
\* vertices, both taken as the origin.
OriginCentroids ==
    /\ (v_xy.vertices = <<>> /\ v_xz.vertices = <<>>) => shift_xy = Pt(RZero, RZero)
    /\ (v_xy.vertices = <<>> /\ v_yz.vertices = <<>>) => shift_yz.x = RZero
    /\ (v_xz.vertices = <<>> /\ v_yz.vertices = <<>>) => shift_yz.y = RZero

\* A STEP text without points and edges: the GEOMETRIC_CURVE_SET is empty
\* and the SHAPE_REPRESENTATION refers to it.
EmptyDocument ==
    /\ Len(LinesOf("CARTESIAN_POINT")) = 0
    /\ Len(LinesOf("EDGE_CURVE")) = 0
    /\ Len(LinesOf("GEOMETRIC_CURVE_SET")) = 1
    /\ LinesOf("GEOMETRIC_CURVE_SET")[1].refs = <<>>
    /\ Len(LinesOf("SHAPE_REPRESENTATION")) = 1
    /\ LinesOf("SHAPE_REPRESENTATION")[1].refs[1] = LinesOf("GEOMETRIC_CURVE_SET")[1].id

\* C20: when a view has no vertices after build_topology, reconstruct_solid
\* does not fail: every step taken from there on is the success of the
\* next stage, build_reconstruction takes the centroid of
\* an empty view as the origin and gives an empty Lambda and an empty
\* Theta, and write_step returns a STEP text for them.
C20_DegenerateView ==
    /\ [](DegenerateView =>
            /\ pc # "views_built" =>
                  lambda = <<>> /\ theta = {} /\ OriginCentroids
            /\ pc = "written" => EmptyDocument)
    /\ [][DegenerateView =>
            pc' = (IF pc = "views_built" THEN "reconstructed" ELSE "written")]_vars

\* The side view holds a circle and nothing else, the other two views have
\* vertices, and the text is written.
C20_Witness ==
    /\ pc = "written"
    /\ v_yz.raw_entities # <<>>
    /\ v_yz.vertices = <<>>
    /\ v_xy.vertices # <<>>
    /\ v_xz.vertices # <<>>
    /\ step # <<>>

-----------------------------------------------------------------------------
(* normalize.rs (cadconvert-core).  An entity carries its Style as the     *)
(* fields layer and linetype, each <<>> for None and <<text>> for Some.    *)
(* An Arc has its centre in pts, a CubicBezier its four control points.    *)

Arc(c, r, a0, a1) ==
    [type |-> "Arc", pts |-> <<c>>, closed |-> FALSE, radius |-> r,
     start_angle_deg |-> a0, end_angle_deg |-> a1]

CubicBezier(p0, p1, p2, p3) ==
    [type |-> "CubicBezier", pts |-> <<p0, p1, p2, p3>>, closed |-> FALSE,
     radius |-> RZero]

Styled(id, kind, layer, linetype, primitive) ==
    [id |-> id, kind |-> kind, layer |-> layer, linetype |-> linetype,
     primitive |-> primitive]

to_ascii_lowercase(name) ==
    [i \in 1..Len(name) |->
        IF \E k \in 1..26 : UpperCase[k] = name[i]
        THEN LowerCase[CHOOSE k \in 1..26 : UpperCase[k] = name[i]]
        ELSE name[i]]

\* NormalizeConfig::default().min_entity_length
min_entity_length == <<1, 1000000>>

\* dx * dx + dy * dy <= m * m, for m > 0.  A NaN term makes the sum NaN and
\* the comparison false; a term beyond m in magnitude decides it, and so
\* does a zero term; otherwise the squares are compared.
SumSqLe(dx, dy, m) ==
    IF is_nan(dx) \/ is_nan(dy) THEN FALSE
    ELSE IF RGt(RAbs(dx), m) \/ RGt(RAbs(dy), m) THEN FALSE
    ELSE IF dx = RZero \/ dy = RZero THEN TRUE
    ELSE RLe(RAdd(RMul(dx, dx), RMul(dy, dy)), RMul(m, m))

\* One turn of the loop over the pairs of control points:
\* max_d2.max(dx * dx + dy * dy) leaves max_d2 as it is when the sum is
\* NaN, so such a pair never takes max_d2 above min_len2.
PairWithin(p, q, m) ==
    \/ is_nan(RSub(p.x, q.x))
    \/ is_nan(RSub(p.y, q.y))
    \/ SumSqLe(RSub(p.x, q.x), RSub(p.y, q.y), m)

\* is_degenerate(p, min_len2) with min_len2 = m * m.
is_degenerate(p, m) ==
    IF p.type = "Line"
    THEN SumSqLe(RSub(p.pts[1].x, p.pts[2].x), RSub(p.pts[1].y, p.pts[2].y), m)
    ELSE IF p.type = "Circle" \/ p.type = "Arc"
    THEN SumSqLe(p.radius, RZero, m)
    ELSE IF p.type = "Polyline"
    THEN Len(p.pts) < 2
    ELSE \A i \in 1..4 : \A j \in (i + 1)..4 : PairWithin(p.pts[i], p.pts[j], m)

\* The text infer_kind_from_style searches: the layer and a space when
\* there is a layer, then the linetype when there is one, lower-cased.
StyleText(ent) ==
    to_ascii_lowercase(
        (IF ent.layer = <<>> THEN <<>> ELSE ent.layer[1] \o <<" ">>)
        \o (IF ent.linetype = <<>> THEN <<>> ELSE ent.linetype[1]))

KindOfText(s) ==
    IF contains(s, <<"c", "e", "n", "t", "e", "r">>)
       \/ contains(s, <<"c", "e", "n", "t", "r", "e">>)
    THEN "Center"
    ELSE IF contains(s, <<"h", "i", "d", "d", "e", "n">>)
            \/ contains(s, <<"h", "i", "d">>)
    THEN "Hidden"
    ELSE IF contains(s, <<"o", "b", "j", "e", "c", "t">>)
            \/ contains(s, <<"c", "o", "n", "t">>)
    THEN "Object"
    ELSE "Unknown"

infer_kind_from_style(ent) == KindOfText(StyleText(ent))

\* The first loop of normalize_in_place on one entity.
InferKind(ent) ==
    IF ent.kind = "Unknown"
    THEN [ent EXCEPT !.kind = infer_kind_from_style(ent)]
    ELSE ent

\* stats.inferred_kinds after the first loop: one for every entity of kind
\* Unknown whose inferred kind is not Unknown.
InferredCount(entities) ==
    Cardinality({i \in 1..Len(entities) :
                    /\ entities[i].kind = "Unknown"
                    /\ infer_kind_from_style(entities[i]) # "Unknown"})

\* entities.retain(|e| !is_degenerate(&e.primitive, min_len2)) from the
\* i-th entity on.
RECURSIVE RetainFrom(_, _)
RetainFrom(entities, i) ==
    IF i > Len(entities) THEN <<>>
    ELSE (IF is_degenerate(entities[i].primitive, min_entity_length)
          THEN <<>> ELSE <<entities[i]>>)
         \o RetainFrom(entities, i + 1)

NormalizeStats(removed, inferred) ==
    [removed_degenerate_entities |-> removed, inferred_kinds |-> inferred]

\* The entities normalize_in_place leaves under the default configuration.
Normalized(entities) ==
    RetainFrom([i \in 1..Len(entities) |-> InferKind(entities[i])], 1)

\* normalize_in_place(&mut drawing, &NormalizeConfig::default())
Normalize ==
    /\ pc = "start"
    /\ drawing' = Normalized(drawing)
    /\ stats' = NormalizeStats(Len(drawing) - Len(Normalized(drawing)),
                               InferredCount(drawing))
    /\ pc' = "normalized"
    /\ UNCHANGED <<v_xy, v_xz, v_yz, shift_xy, shift_yz, lambda, theta, step,
                   first_run, clusters, assignment, document>>

\* The greatest number of entities of a drawing handed to normalize_in_place.
MaxNormEntities == 2

\* Primitives on both sides of every test of is_degenerate, and at it.
NormPrimitives ==
    { Line(P(0, 0), P(0, 0)),
      Line(P(0, 0), P(1, 0)),
      Line(P(0, 0), Pt(min_entity_length, RZero)),
      Line(Pt(NaN, RZero), P(1, 0)),
      Circle(P(0, 0), ROne),
      Circle(P(0, 0), RZero),
      Circle(P(0, 0), RInt(-1)),
      Arc(P(0, 0), min_entity_length, RZero, RInt(90)),
      Arc(P(0, 0), RInt(2), RZero, RInt(90)),
      Polyline(<<>>, FALSE),
      Polyline(<<P(1, 1)>>, TRUE),
      Polyline(<<P(1, 1), P(1, 1)>>, FALSE),
      CubicBezier(P(1, 1), P(1, 1), P(1, 1), P(1, 1)),
      CubicBezier(P(0, 0), P(0, 0), P(0, 0), P(3, 0)),
      CubicBezier(P(0, 0), P(0, 0), P(0, 0), Pt(NaN, RZero)) }

\* <<kind, layer, linetype>>.
NormStyles ==
    { <<"Unknown", <<>>, <<<<"H", "I", "D", "D", "E", "N">>>>>>,
      <<"Unknown", <<<<"C", "e", "n", "t", "r", "e", "-", "h", "i", "d">>>>,
                   <<<<"C", "O", "N", "T", "I", "N", "U", "O", "U", "S">>>>>>,
      <<"Unknown", <<>>, <<<<"C", "o", "n", "t", "i", "n", "u", "o", "u", "s">>>>>>,
      <<"Unknown", <<<<"0">>>>, <<>>>>,
      <<"Unknown", <<<<"h", "i">>>>, <<<<"d", "d", "e", "n">>>>>>,
      <<"Object", <<>>, <<<<"H", "I", "D", "D", "E", "N">>>>>>,
      <<"Dimension", <<<<"h", "i", "d", "d", "e", "n">>>>, <<>>>> }

NormDrawing(styles, prims) ==
    [i \in 1..Len(styles) |->
        Styled(i, styles[i][1], styles[i][2], styles[i][3], prims[i])]

InitNormalize ==
    /\ \E n \in 0..MaxNormEntities :
          \E styles \in [1..n -> NormStyles], prims \in [1..n -> NormPrimitives] :
              drawing = NormDrawing(styles, prims)
    /\ v_xy = NoView
    /\ v_xz = NoView
    /\ v_yz = NoView
    /\ shift_xy = Pt(RZero, RZero)
    /\ shift_yz = Pt(RZero, RZero)
    /\ lambda = <<>>
    /\ theta = {}
    /\ step = <<>>
    /\ first_run = <<>>
    /\ CoreIdle
    /\ pc = "start"

NextNormalize == Normalize

SpecNormalize == InitNormalize /\ [][NextNormalize]_vars

-----------------------------------------------------------------------------
(* Normalisation under the default configuration.                          *)

\* A degenerate primitive: a line no longer than m, a circle or an arc of
\* radius m or less, a polyline of fewer than two vertices, a Bezier whose
\* control points lie within m of one another.
Degenerate(p, m) ==
    IF p.type = "Line"
    THEN SumSqLe(RSub(p.pts[1].x, p.pts[2].x), RSub(p.pts[1].y, p.pts[2].y), m)
    ELSE IF p.type = "Circle" \/ p.type = "Arc"
    THEN RLe(p.radius, m)
    ELSE IF p.type = "Polyline"
    THEN Len(p.pts) < 2
    ELSE \A i \in 1..4 : \A j \in (i + 1)..4 :
            SumSqLe(RSub(p.pts[i].x, p.pts[j].x), RSub(p.pts[i].y, p.pts[j].y), m)

\* The entities from the i-th on that are not degenerate, each of kind
\* Unknown with the kind its style gives.
RECURSIVE SoundFrom(_, _)
SoundFrom(entities, i) ==
    IF i > Len(entities) THEN <<>>
    ELSE (IF Degenerate(entities[i].primitive, min_entity_length) THEN <<>>
          ELSE <<IF entities[i].kind = "Unknown"
                 THEN [entities[i] EXCEPT !.kind = infer_kind_from_style(entities[i])]
                 ELSE entities[i]>>)
         \o SoundFrom(entities, i + 1)

\* The entities of `after` whose kind in `before` was Unknown and is so no
\* more.
ChangedKinds(before, after) ==
    {j \in 1..Len(after) :
        \E i \in 1..Len(before) :
            /\ before[i].id = after[j].id
            /\ before[i].kind = "Unknown"
            /\ after[j].kind # "Unknown"}

\* C21: normalize_in_place with the default configuration removes exactly
\* the degenerate entities (a line of length <= min_entity_length, a circle
\* or arc of radius <= min_entity_length, a polyline of fewer than 2
\* vertices, a Bezier whose control points all lie within
\* min_entity_length) and keeps every other entity in its original order;
\* an entity of kind Unknown gets the kind inferred from its style and an
\* entity of any other kind keeps it; stats.removed_degenerate_entities is
\* the number of entities removed and stats.inferred_kinds the number of
\* kinds changed from Unknown.
C21_Normalize ==
    [][pc' = "normalized" =>
          /\ drawing' = SoundFrom(drawing, 1)
          /\ stats'.removed_degenerate_entities = Len(drawing) - Len(drawing')
          /\ stats'.inferred_kinds = Cardinality(ChangedKinds(drawing, drawing'))]_vars

-----------------------------------------------------------------------------
(* view.rs (cadconvert-core).  A score is kept as the integer it always    *)
(* is; a ViewClusterReport is taken with its id and its bbox.              *)

ViewClusterReport(id, box) == [id |-> id, bbox |-> box]

\* d / (d + r + 1e-9) < 0.35 for d, r >= 0, that is 13 * d - 7 * r < 7e-9.
\* A NaN term, or inf / inf, makes the comparison false and d / inf is 0;
\* 13 * d - 7 * r at or below 0 or at or above 1e-3 decides it, and in
\* between the exact comparison is made.
RatioAcross(d, r, q) ==
    IF is_nan(d) \/ is_nan(r) THEN FALSE
    ELSE IF ~is_finite(d) THEN FALSE
    ELSE IF ~is_finite(r) THEN TRUE
    ELSE IF RLe(q, RZero) THEN TRUE
    ELSE IF RGe(q, <<1, 1000>>) THEN FALSE
    ELSE RLt(q, <<7, 1000000000>>)

RatioBelow(d, r) ==
    RatioAcross(d, r, RSub(RMul(RInt(13), d), RMul(RInt(7), r)))

\* +1.0 or -1.0 of a relative position rule.
Rule(holds) == IF holds THEN 1 ELSE -1

\* +1.0 of an alignment rule.
Soft(holds) == IF holds THEN 1 ELSE 0

\* Mutation of score_assignment: the alignment rules are left out.
score_assignment_NoAlignment(scheme, front, top, right) ==
    IF scheme = "ThirdAngle"
    THEN Rule(RGt(top.y, front.y)) + Rule(RGt(right.x, front.x))
    ELSE Rule(RLt(top.y, front.y)) + Rule(RLt(right.x, front.x))

score_assignment(scheme, front, top, right) ==
    (IF scheme = "ThirdAngle"
     THEN Rule(RGt(top.y, front.y)) + Rule(RGt(right.x, front.x))
     ELSE Rule(RLt(top.y, front.y)) + Rule(RLt(right.x, front.x)))
    + Soft(RatioBelow(RAbs(RSub(top.x, front.x)), RAbs(RSub(right.x, front.x))))
    + Soft(RatioBelow(RAbs(RSub(right.y, front.y)), RAbs(RSub(top.y, front.y))))

\* The permutations [front, top, right] (indices from 1) in the order they
\* are tried, each with ThirdAngle before FirstAngle.
Candidates ==
    << <<<<1, 2, 3>>, "ThirdAngle">>, <<<<1, 2, 3>>, "FirstAngle">>,
       <<<<1, 3, 2>>, "ThirdAngle">>, <<<<1, 3, 2>>, "FirstAngle">>,
       <<<<2, 1, 3>>, "ThirdAngle">>, <<<<2, 1, 3>>, "FirstAngle">>,
       <<<<2, 3, 1>>, "ThirdAngle">>, <<<<2, 3, 1>>, "FirstAngle">>,
       <<<<3, 1, 2>>, "ThirdAngle">>, <<<<3, 1, 2>>, "FirstAngle">>,
       <<<<3, 2, 1>>, "ThirdAngle">>, <<<<3, 2, 1>>, "FirstAngle">> >>

ScoreOf(cls, cand) ==
    score_assignment(cand[2], center(cls[cand[1][1]].bbox),
                     center(cls[cand[1][2]].bbox), center(cls[cand[1][3]].bbox))

\* The two loops from the k-th candidate on: best is <<>> for None and
\* <<score, candidate>> for Some, replaced unless score <= best_score.
RECURSIVE ScanCandidates(_, _, _)
ScanCandidates(cls, k, best) ==
    IF k > Len(Candidates) THEN best
    ELSE IF best # <<>> /\ ScoreOf(cls, Candidates[k]) <= best[1]
    THEN ScanCandidates(cls, k + 1, best)
    ELSE ScanCandidates(cls, k + 1, <<ScoreOf(cls, Candidates[k]), Candidates[k]>>)

NoAssignment == [some |-> FALSE]

ViewRoleAssignment(cluster_id, role) == [cluster_id |-> cluster_id, role |-> role]

\* (best_score / 4.0).clamp(0.0, 1.0)
Confidence(score) ==
    IF score < 0 THEN RZero ELSE IF score > 4 THEN ROne ELSE Rat(score, 4)

ReportOf(cls, best) ==
    IF best[1] < 2 THEN NoAssignment
    ELSE [some |-> TRUE,
          scheme |-> best[2][2],
          confidence |-> Confidence(best[1]),
          roles |-> << ViewRoleAssignment(cls[best[2][1][1]].id, "Front"),
                       ViewRoleAssignment(cls[best[2][1][2]].id, "Top"),
                       ViewRoleAssignment(cls[best[2][1][3]].id, "Right") >>]

assign_three_view_roles(cls) ==
    IF Len(cls) # 3 THEN NoAssignment
    ELSE ReportOf(cls, ScanCandidates(cls, 1, <<>>))

AssignRoles ==
    /\ pc = "start"
    /\ assignment' = assign_three_view_roles(clusters)
    /\ pc' = "assigned"
    /\ UNCHANGED <<drawing, v_xy, v_xz, v_yz, shift_xy, shift_yz, lambda, theta,
                   step, first_run, stats, clusters, document>>

\* The greatest number of clusters handed to assign_three_view_roles.
MaxClusters == 4

\* The centres of the front, the top and the right cluster, h and w away
\* from the front at (fx, fy): above and to the right of it (third angle),
\* below and to the left (first angle), both on a diagonal, the top off
\* its column by a fifth of the way to the right cluster, or all three at
\* one place.
LayoutKinds == {"third", "first", "diagonal", "skewed", "stacked"}

LayoutCentres(kind, fx, fy, h, w) ==
    IF kind = "third"
    THEN <<P(fx, fy), P(fx, fy + h), P(fx + w, fy)>>
    ELSE IF kind = "first"
    THEN <<P(fx, fy), P(fx, fy - h), P(fx - w, fy)>>
    ELSE IF kind = "diagonal"
    THEN <<P(fx, fy), P(fx + h, fy + h), P(fx + w, fy - w)>>
    ELSE IF kind = "stacked"
    THEN <<P(fx, fy), P(fx, fy), P(fx, fy)>>
    ELSE <<P(fx, fy), Pt(RAdd(RInt(fx), Rat(w, 5)), RInt(fy + h)), P(fx + w, fy)>>

\* A box of half-width a and half-height b about c.
BoxAbout(c, a, b) ==
    BBox2(Pt(RSub(c.x, RInt(a)), RSub(c.y, RInt(b))),
          Pt(RAdd(c.x, RInt(a)), RAdd(c.y, RInt(b))))

ClusterOrders ==
    {<<1, 2, 3>>, <<1, 3, 2>>, <<2, 1, 3>>, <<2, 3, 1>>, <<3, 1, 2>>, <<3, 2, 1>>}

ClusterIds == {<<0, 1, 2, 3, 4>>, <<7, 3, 5, 1, 0>>}

\* n clusters: the first three hold the front, top and right centres in
\* the given order, the further ones lie away on the diagonal.
ClustersOf(n, centres, order, ids) ==
    [i \in 1..n |->
        ViewClusterReport(ids[i],
            IF i <= 3 THEN BoxAbout(centres[order[i]], i, 2 * i)
            ELSE BoxAbout(P(1000 * i, 1000 * i), 1, 1))]

InitViewRoles ==
    /\ \E n \in 0..MaxClusters, kind \in LayoutKinds, fx \in {0, -5}, fy \in {0, 7},
          h \in {1, 100}, w \in {1, 100}, order \in ClusterOrders, ids \in ClusterIds :
          clusters = ClustersOf(n, LayoutCentres(kind, fx, fy, h, w), order, ids)
    /\ drawing = <<>>
    /\ v_xy = NoView
    /\ v_xz = NoView
    /\ v_yz = NoView
    /\ shift_xy = Pt(RZero, RZero)
    /\ shift_yz = Pt(RZero, RZero)
    /\ lambda = <<>>
    /\ theta = {}
    /\ step = <<>>
    /\ first_run = <<>>
    /\ stats = <<>>
    /\ assignment = <<>>
    /\ document = <<>>
    /\ pc = "start"

NextViewRoles == AssignRoles

SpecViewRoles == InitViewRoles /\ [][NextViewRoles]_vars

-----------------------------------------------------------------------------
(* Roles of three views laid out in third angle.                           *)

\* The clusters f, t and r are laid out in third angle: the centre of t is
\* above that of f and in its column, the centre of r is to the right of
\* that of f and in its row.
ThirdAngleLayout(f, t, r) ==
    /\ RGt(center(clusters[t].bbox).y, center(clusters[f].bbox).y)
    /\ center(clusters[t].bbox).x = center(clusters[f].bbox).x
    /\ RGt(center(clusters[r].bbox).x, center(clusters[f].bbox).x)
    /\ center(clusters[r].bbox).y = center(clusters[f].bbox).y

\* The cluster id the assignment gives to the role.
ClusterOf(role) ==
    {assignment.roles[i].cluster_id :
        i \in {k \in 1..Len(assignment.roles) : assignment.roles[k].role = role}}

\* C22: on exactly three clusters laid out in third angle, given in any
\* order, assign_three_view_roles returns the scheme ThirdAngle with a
\* confidence above 0.9 and the roles Front, Top and Right mapped to the
\* ids of the front, the top and the right cluster, three distinct
\* clusters; for any number of clusters other than three it returns no
\* assignment.
C22_ThirdAngle ==
    pc = "assigned" =>
        /\ Len(clusters) # 3 => assignment = NoAssignment
        /\ Len(clusters) = 3 =>
              \A f \in 1..3, t \in 1..3, r \in 1..3 :
                  ThirdAngleLayout(f, t, r) =>
                      /\ assignment.some
                      /\ assignment.scheme = "ThirdAngle"
                      /\ RGt(assignment.confidence, <<9, 10>>)
                      /\ Len(assignment.roles) = 3
                      /\ ClusterOf("Front") = {clusters[f].id}
                      /\ ClusterOf("Top") = {clusters[t].id}
                      /\ ClusterOf("Right") = {clusters[r].id}
                      /\ Cardinality({clusters[f].id, clusters[t].id,
                                      clusters[r].id}) = 3

\* Three clusters given as right, front, top (ids 7, 3, 5), laid out in
\* third angle, have got their roles.
C22_Witness ==
    /\ pc = "assigned"
    /\ Len(clusters) = 3
    /\ ThirdAngleLayout(2, 3, 1)
    /\ clusters[1].id = 7
    /\ assignment.some
    /\ ClusterOf("Front") = {3}

-----------------------------------------------------------------------------
(* step.rs (cadconvert-core).  The text returned by wireframe_step is a    *)
(* sequence of lines: a line of the wrapper is [text], a line of the DATA  *)
(* section the StepLine of its entity.  Angles are kept in degrees; cos    *)
(* and sin are read from a table of the multiples of 360/64 degrees,       *)
(* rounded to six decimals, and no other angle can be evaluated: TLC       *)
(* stops with an error on an angle outside the table, as it does on a      *)
(* square root that is not a small rational and on a bulge whose arc       *)
(* tangent is not a multiple of 45 degrees.                                *)

\* A polyline whose vertices carry the bulges of PolylineVertex2D.
BulgedPolyline(vs, bulges, closed) ==
    [type |-> "Polyline", pts |-> vs, bulges |-> bulges, closed |-> closed,
     radius |-> RZero]

\* |d| < 1e-9 on one axis: false for NaN, decided at 0 and from 1e-6 on.
AxisNear(d) ==
    IF ~is_finite(d) THEN FALSE
    ELSE IF d = RZero THEN TRUE
    ELSE IF RGe(RAbs(d), <<1, 1000000>>) THEN FALSE
    ELSE RLt(RAbs(d), <<1, 1000000000>>)

approx_eq(a, b) == AxisNear(RSub(a.x, b.x)) /\ AxisNear(RSub(a.y, b.y))

\* cos of k * 360/64 degrees for k = 0..16, in millionths.
CosTable ==
    << 1000000, 995185, 980785, 956940, 923880, 881921, 831470, 773010, 707107,
       634393, 555570, 471397, 382683, 290285, 195090, 98017, 0 >>

\* cos of k * 360/64 degrees for k in 0..63.
CosStep(k) ==
    IF k <= 16 THEN Rat(CosTable[k + 1], 1000000)
    ELSE IF k <= 32 THEN Rat(-CosTable[32 - k + 1], 1000000)
    ELSE IF k <= 48 THEN Rat(-CosTable[k - 32 + 1], 1000000)
    ELSE Rat(CosTable[64 - k + 1], 1000000)

\* The number of steps of 360/64 degrees in the angle a, given as
\* a * 64/360; defined for whole numbers only.
StepsOf(q) == [den \in {1} |-> q[1]][q[2]]

CosDeg(a) == CosStep(StepsOf(RMul(a, <<8, 45>>)) % 64)

SinDeg(a) == CosStep((StepsOf(RMul(a, <<8, 45>>)) + 48) % 64)

\* center + radius * (cos a, sin a)
OnCircle(c, radius, a) ==
    Pt(RAdd(c.x, RMul(radius, CosDeg(a))), RAdd(c.y, RMul(radius, SinDeg(a))))

\* The points at a0 + sweep * i / segments for i = 0..segments.
Sweep(c, radius, a0, sweep, segments) ==
    [i \in 1..(segments + 1) |->
        OnCircle(c, radius, RAdd(a0, RMul(sweep, Rat(i - 1, segments))))]

circle_points(c, radius, segments) ==
    IF ~is_finite(radius) \/ RLe(radius, RZero) \/ segments < 3 THEN <<>>
    ELSE Sweep(c, radius, RZero, RInt(360), segments)

arc_points(c, radius, start_deg, end_deg, segments) ==
    IF ~is_finite(radius) \/ RLe(radius, RZero) \/ segments < 2 THEN <<>>
    ELSE Sweep(c, radius, start_deg,
               RSub(IF RLt(end_deg, start_deg) THEN RAdd(end_deg, RInt(360))
                    ELSE end_deg,
                    start_deg),
               segments)

\* uuu * p0 + 3 * uu * t * p1 + 3 * u * tt * p2 + ttt * p3 on one axis.
BezierAxis(a0, a1, a2, a3, t, u) ==
    RAdd(RAdd(RAdd(RMul(RMul(RMul(u, u), u), a0),
                   RMul(RMul(RMul(RInt(3), RMul(u, u)), t), a1)),
              RMul(RMul(RMul(RInt(3), u), RMul(t, t)), a2)),
         RMul(RMul(RMul(t, t), t), a3))

bezier_eval(b, t) ==
    Pt(BezierAxis(b[1].x, b[2].x, b[3].x, b[4].x, t, RSub(ROne, t)),
       BezierAxis(b[1].y, b[2].y, b[3].y, b[4].y, t, RSub(ROne, t)))

bezier_points(b, segments) ==
    IF segments < 2 THEN <<>>
    ELSE [i \in 1..(segments + 1) |-> bezier_eval(b, Rat(i - 1, segments))]

\* f64::sqrt, for the squares of the multiples of 1/2 up to 16.
SqrtOf(a) ==
    IF ~is_finite(a) THEN a
    ELSE CHOOSE r \in {Rat(n, 2) : n \in 0..32} : RMul(r, r) = a

\* len < 1e-12, decided below 1e-6 only.
Below1em12(len) ==
    /\ RLt(RMul(len, RInt(1000000)), ROne)
    /\ RLt(RMul(RMul(len, RInt(1000000)), RInt(1000000)), ROne)

rot90(v) == Pt(RNeg(v.y), v.x)

NormOver(v, len) ==
    IF ~is_finite(len) \/ Below1em12(len) THEN Pt(RZero, RZero)
    ELSE Pt(RDiv(v.x, len), RDiv(v.y, len))

norm(v) == NormOver(v, SqrtOf(Norm2(v)))

\* 4.0 * bulge.atan() in degrees, for the bulges of a half circle.
ThetaOf(bulge) == [b \in {ROne, RInt(-1)} |-> RInt(180 * b[1])][bulge]

\* (y).atan2(x) in degrees, along the axes.
Atan2Deg(y, x) ==
    [xy \in {<<1, 0>>, <<0, 1>>, <<-1, 0>>, <<0, -1>>} |->
        IF xy = <<1, 0>> THEN RZero
        ELSE IF xy = <<0, 1>> THEN RInt(90)
        ELSE IF xy = <<-1, 0>> THEN RInt(180)
        ELSE RInt(-90)][<<Signum(x[1]), Signum(y[1])>>]

\* f64::signum: 1.0 for a positive number and for 0.0, -1.0 for a
\* negative number, NaN for NaN.
signum(a) == IF is_nan(a) THEN NaN ELSE IF a[1] < 0 THEN RInt(-1) ELSE ROne

\* The least whole number not below a >= 0.
Ceil(a) == (a[1] + a[2] - 1) \div a[2]

Clamp(n, lo, hi) == IF n < lo THEN lo ELSE IF n > hi THEN hi ELSE n

\* The arc about its centre, once the sweep angle and r are known.
BulgeArcAbout(p0, centre, sweep, r) ==
    Sweep(centre, r, Atan2Deg(RSub(p0.y, centre.y), RSub(p0.x, centre.x)), sweep,
          Clamp(Ceil(RDiv(RAbs(sweep), Rat(180, 16))), 2, 256))

\* The centre: the middle of the chord moved by d along perp.
BulgeCentre(p0, p1, perp, d) ==
    Pt(RAdd(RMul(RAdd(p0.x, p1.x), <<1, 2>>), RMul(perp.x, d)),
       RAdd(RMul(RAdd(p0.y, p1.y), <<1, 2>>), RMul(perp.y, d)))

BulgeArc(p0, p1, bulge, chord, c) ==
    IF ~is_finite(c) \/ Below1em12(c) THEN <<>>
    ELSE IF ~is_finite(bulge) \/ bulge = RZero THEN <<<<p0, p1>>>>
    ELSE << BulgeArcAbout(
               p0,
               BulgeCentre(p0, p1, norm(rot90(chord)),
                   RMul(RMul(RDiv(RMul(c, RAdd(ROne, RMul(bulge, bulge))),
                                  RMul(RInt(4), RAbs(bulge))),
                             CosDeg(RMul(ThetaOf(bulge), <<1, 2>>))),
                        signum(bulge))),
               ThetaOf(bulge),
               RDiv(RMul(c, RAdd(ROne, RMul(bulge, bulge))),
                    RMul(RInt(4), RAbs(bulge)))) >>

\* Option<Vec<Vec2>>: <<>> for None, <<points>> for Some(points).
bulge_arc_points(p0, p1, bulge) ==
    BulgeArc(p0, p1, bulge, PSub(p1, p0), SqrtOf(Norm2(PSub(p1, p0))))

\* out.extend(arc.into_iter().skip(1)), or out.push(p1) for None.
ExtendWith(out, p1, arc) ==
    IF arc = <<>> THEN Append(out, p1) ELSE out \o Tail(arc[1])

\* A bulge is 0 or at least 1e-10 in magnitude, so that bulge.abs() < 1e-10
\* and bulge.abs() < 1e-12 are both bulge = 0.
append_segment(out, p0, p1, bulge) ==
    IF approx_eq(p0, p1) THEN out
    ELSE IF bulge = RZero THEN Append(out, p1)
    ELSE ExtendWith(out, p1, bulge_arc_points(p0, p1, bulge))

\* The loop of polyline_points from the i-th vertex on, and the closing
\* segment.
RECURSIVE SegmentsFrom(_, _, _)
SegmentsFrom(pl, i, out) ==
    IF i < Len(pl.pts)
    THEN SegmentsFrom(pl, i + 1,
                      append_segment(out, pl.pts[i], pl.pts[i + 1], pl.bulges[i]))
    ELSE IF pl.closed
    THEN append_segment(out, pl.pts[Len(pl.pts)], pl.pts[1], pl.bulges[Len(pl.pts)])
    ELSE out

polyline_points(pl) ==
    IF Len(pl.pts) = 0 THEN <<>>
    ELSE IF Len(pl.pts) = 1 THEN <<pl.pts[1]>>
    ELSE SegmentsFrom(pl, 1, <<pl.pts[1]>>)

primitive_to_polyline_points(prim) ==
    IF prim.type = "Line" THEN prim.pts
    ELSE IF prim.type = "Circle" THEN circle_points(prim.pts[1], prim.radius, 64)
    ELSE IF prim.type = "Arc"
    THEN arc_points(prim.pts[1], prim.radius, prim.start_angle_deg,
                    prim.end_angle_deg, 48)
    ELSE IF prim.type = "Polyline" THEN polyline_points(prim)
    ELSE bezier_points(prim.pts, 32)

\* "0." for a value that is not finite, else format!("{:.6}"), with
\* -0.000000 written 0.000000.
f64_step(v) ==
    IF ~is_finite(v) THEN [negative |-> FALSE, text |-> "0."]
    ELSE [negative |-> v[1] < 0 /\ Fmt6(v).millionths # 0,
          millionths |-> Fmt6(v).millionths]

cartesian_point(id, p) ==
    StepLine(id, "CARTESIAN_POINT", <<>>, <<f64_step(p.x), f64_step(p.y), f64_step(RZero)>>)

\* The POLYLINE #id over the n points written just before it.
polyline(id, n) == StepLine(id, "POLYLINE", [k \in 1..n |-> id - n + k - 1], <<>>)

\* Mutation of Drawn: a hatch is written like an object.
Drawn_Hatch(ent, points) ==
    /\ ent.kind \notin {"Dimension", "Text"}
    /\ Len(points) >= 2
    /\ ~ \A k \in 1..Len(points) : approx_eq(points[1], points[k])

\* The entity is written: it is no dimension, text or hatch, and its
\* points are two or more and not all approx_eq to the first.
Drawn(ent, points) ==
    /\ ent.kind \notin {"Dimension", "Text", "Hatch"}
    /\ Len(points) >= 2
    /\ ~ \A k \in 1..Len(points) : approx_eq(points[1], points[k])

\* The geometry loop from the i-th entity on: the lines pushed and the
\* curve ids, the writer being at next_id.
RECURSIVE GeometryFrom(_, _, _, _, _)
GeometryPush(entities, i, next_id, curve_ids, lines, points) ==
    IF ~Drawn(entities[i], points)
    THEN GeometryFrom(entities, i + 1, next_id, curve_ids, lines)
    ELSE GeometryFrom(entities, i + 1, next_id + Len(points) + 1,
                      Append(curve_ids, next_id + Len(points)),
                      lines \o [k \in 1..Len(points) |->
                                   cartesian_point(next_id + k - 1, points[k])]
                            \o <<polyline(next_id + Len(points), Len(points))>>)

GeometryFrom(entities, i, next_id, curve_ids, lines) ==
    IF i > Len(entities) THEN [lines |-> lines, curve_ids |-> curve_ids, next_id |-> next_id]
    ELSE GeometryPush(entities, i, next_id, curve_ids, lines,
                      primitive_to_polyline_points(entities[i].primitive))

\* name.trim(): the text without its leading and trailing blanks.
RECURSIVE TrimStart(_)
TrimStart(name) ==
    IF name # <<>> /\ name[1] = " " THEN TrimStart(Tail(name)) ELSE name

RECURSIVE TrimEnd(_)
TrimEnd(name) ==
    IF name # <<>> /\ name[Len(name)] = " "
    THEN TrimEnd(SubSeq(name, 1, Len(name) - 1)) ELSE name

RECURSIVE escape_step_string(_)
escape_step_string(name) ==
    IF name = <<>> THEN <<>>
    ELSE (IF name[1] = "'" THEN <<"'", "'">> ELSE <<name[1]>>)
         \o escape_step_string(Tail(name))

SafeName(name) ==
    escape_step_string(
        IF TrimEnd(TrimStart(name)) = <<>>
        THEN <<"c", "a", "d", "c", "o", "n", "v", "e", "r", "t">>
        ELSE TrimEnd(TrimStart(name)))

\* The thirteen entities pushed before the geometry; the length unit is
\* that of Units::Unknown.
WireBoilerplate(safe_name) ==
    << StepLine(1, "APPLICATION_CONTEXT", <<>>, <<>>),
       StepLine(2, "APPLICATION_PROTOCOL_DEFINITION", <<1>>, <<>>),
       StepLine(3, "PRODUCT_DEFINITION_CONTEXT", <<1>>, <<>>),
       StepLine(4, "PRODUCT_CONTEXT", <<1>>, <<>>),
       StepLine(5, "PRODUCT", <<4>>, <<safe_name, safe_name>>),
       StepLine(6, "PRODUCT_DEFINITION_FORMATION_WITH_SPECIFIED_SOURCE", <<5>>, <<>>),
       StepLine(7, "PRODUCT_DEFINITION", <<6, 3>>, <<>>),
       StepLine(8, "PRODUCT_DEFINITION_SHAPE", <<7>>, <<>>),
       StepLine(9, "LENGTH_UNIT", <<>>, <<"MILLI", "METRE">>),
       StepLine(10, "PLANE_ANGLE_UNIT", <<>>, <<"RADIAN">>),
       StepLine(11, "SOLID_ANGLE_UNIT", <<>>, <<"STERADIAN">>),
       StepLine(12, "UNCERTAINTY_MEASURE_WITH_UNIT", <<9>>, <<>>),
       StepLine(13, "GEOMETRIC_REPRESENTATION_CONTEXT", <<12, 9, 10, 11>>, <<>>) >>

\* The id of the representation context and the id the geometry starts at.
RepCtxId == 13

WireText(text) == [text |-> text]

\* The three entities pushed after the geometry.
Representation(geometry) ==
    << StepLine(geometry.next_id, "GEOMETRIC_CURVE_SET", geometry.curve_ids, <<>>),
       StepLine(geometry.next_id + 1, "SHAPE_REPRESENTATION",
                <<geometry.next_id, RepCtxId>>, <<>>),
       StepLine(geometry.next_id + 2, "SHAPE_DEFINITION_REPRESENTATION",
                <<8, geometry.next_id + 1>>, <<>>) >>

WrapData(safe_name, geometry) ==
    << WireText("ISO-10303-21;"),
       WireText("HEADER;"),
       WireText("FILE_DESCRIPTION(('cadconvert wireframe'),'2;1');"),
       [text |-> "FILE_NAME", name |-> safe_name \o <<".", "s", "t", "e", "p">>],
       WireText("FILE_SCHEMA(('AUTOMOTIVE_DESIGN_CC2'));"),
       WireText("ENDSEC;"),
       WireText("DATA;") >>
    \o WireBoilerplate(safe_name) \o geometry.lines \o Representation(geometry)
    \o << WireText("ENDSEC;"), WireText("END-ISO-10303-21;") >>

wireframe_step(entities, name) ==
    WrapData(SafeName(name), GeometryFrom(entities, 1, RepCtxId + 1, <<>>, <<>>))

\* The names given to wireframe_step.
StepNames == { <<>>, <<" ", " ">>, <<" ", "a", "'", "b", " ">> }

WireframeStep ==
    /\ pc = "start"
    /\ \E name \in StepNames : document' = wireframe_step(drawing, name)
    /\ pc' = "wired"
    /\ UNCHANGED <<drawing, v_xy, v_xz, v_yz, shift_xy, shift_yz, lambda, theta,
                   step, first_run, stats, clusters, assignment>>

\* The greatest number of entities of a drawing handed to wireframe_step.
MaxWireEntities == 2

\* Primitives with two distinct points or more, with fewer than two
\* points, and with two points or more that all coincide.
WirePrimitives ==
    { Line(P(0, 0), P(1, 0)),
      Line(P(2, 2), P(2, 2)),
      Line(P(0, 0), Pt(<<1, 2000000000>>, RZero)),
      Line(Pt(NaN, RZero), P(1, 1)),
      Line(Pt(<<-1, 4000000>>, RZero), P(0, 1)),
      Circle(P(0, 0), ROne),
      Circle(P(1, 1), RZero),
      Circle(P(1, 1), RInt(-1)),
      Circle(P(1, 1), Infinity),
      Arc(P(0, 0), RInt(2), RZero, RInt(270)),
      Arc(P(0, 0), ROne, RInt(90), RZero),
      Arc(P(0, 0), RZero, RZero, RInt(270)),
      BulgedPolyline(<<>>, <<>>, FALSE),
      BulgedPolyline(<<P(1, 1)>>, <<RZero>>, TRUE),
      BulgedPolyline(<<P(1, 1), P(1, 1)>>, <<ROne, RZero>>, TRUE),
      BulgedPolyline(<<P(0, 0), P(4, 0), P(4, 3)>>, <<RZero, RZero, RZero>>, TRUE),
      BulgedPolyline(<<P(0, 0), P(2, 0)>>, <<ROne, RInt(-1)>>, TRUE),
      BulgedPolyline(<<P(0, 0), P(0, 2)>>, <<NaN, RZero>>, FALSE),
      CubicBezier(P(0, 0), P(1, 2), P(3, 2), P(4, 0)),
      CubicBezier(P(1, 1), P(1, 1), P(1, 1), P(1, 1)) }

WireKinds == {"Object", "Unknown", "Hatch", "Text", "Dimension"}

WireDrawing(kinds, prims) ==
    [i \in 1..Len(kinds) |-> Styled(i, kinds[i], <<>>, <<>>, prims[i])]

InitWireframe ==
    /\ \E n \in 0..MaxWireEntities :
          \E kinds \in [1..n -> WireKinds], prims \in [1..n -> WirePrimitives] :
              drawing = WireDrawing(kinds, prims)
    /\ v_xy = NoView
    /\ v_xz = NoView
    /\ v_yz = NoView
    /\ shift_xy = Pt(RZero, RZero)
    /\ shift_yz = Pt(RZero, RZero)
    /\ lambda = <<>>
    /\ theta = {}
    /\ step = <<>>
    /\ first_run = <<>>
    /\ CoreIdle
    /\ pc = "start"

NextWireframe == WireframeStep

SpecWireframe == InitWireframe /\ [][NextWireframe]_vars

-----------------------------------------------------------------------------
(* The wireframe document.                                                 *)

\* The lines of the DATA section.
DataLines == SelectSeq(document, LAMBDA l : "id" \in DOMAIN l)

\* The lines of the wrapper.
WrapperLines == SelectSeq(document, LAMBDA l : "id" \notin DOMAIN l)

DataOf(keyword) ==
    SelectSeq(document, LAMBDA l : "id" \in DOMAIN l /\ l.keyword = keyword)

\* Two points of the sequence differ by 1e-9 or more on an axis (or cannot
\* be compared), told from the first point.
NotAllCoincident(points) ==
    \E k \in 1..Len(points) :
        \/ ~AxisNear(RSub(points[1].x, points[k].x))
        \/ ~AxisNear(RSub(points[1].y, points[k].y))

\* The polylined approximations of the entities that are to be written,
\* in their order.
WiredFrom(approximations) ==
    SelectSeq(approximations,
              LAMBDA a : /\ a.kind # "Dimension" /\ a.kind # "Text" /\ a.kind # "Hatch"
                         /\ Len(a.points) >= 2
                         /\ NotAllCoincident(a.points))

Wired ==
    CHOOSE w \in {WiredFrom([i \in 1..Len(drawing) |->
                      [kind |-> drawing[i].kind,
                       points |-> primitive_to_polyline_points(drawing[i].primitive)]])} :
        TRUE

\* The line of the document that defines #id is a CARTESIAN_POINT at the
\* point with z = 0.
PointWritten(id, point) ==
    \E i \in 1..Len(document) :
        /\ "id" \in DOMAIN document[i]
        /\ document[i].id = id
        /\ document[i].keyword = "CARTESIAN_POINT"
        /\ document[i].values
              = <<f64_step(point.x), f64_step(point.y),
                  [negative |-> FALSE, millionths |-> 0]>>

\* The line is a POLYLINE over CARTESIAN_POINTs with z = 0, one for each of
\* the points and in their order.
PolylineOver(line, points) ==
    /\ line.keyword = "POLYLINE"
    /\ Len(line.refs) = Len(points)
    /\ \A k \in 1..Len(points) : PointWritten(line.refs[k], points[k])

\* The POLYLINEs stand for the entities to be written, one for one and in
\* their order, and the GEOMETRIC_CURVE_SET lists them.
CurvesWritten(polylines, wired, curve_sets) ==
    /\ Len(polylines) = Len(wired)
    /\ \A k \in 1..Len(wired) : PolylineOver(polylines[k], wired[k].points)
    /\ Len(curve_sets) = 1
    /\ curve_sets[1].refs = [k \in 1..Len(wired) |-> polylines[k].id]

\* C23: wireframe_step of any drawing returns a document framed by
\* ISO-10303-21; and END-ISO-10303-21; with the line
\* FILE_SCHEMA(('AUTOMOTIVE_DESIGN_CC2')); it holds exactly one POLYLINE,
\* over CARTESIAN_POINTs with z = 0, for each entity that is not of kind
\* Dimension, Text or Hatch and whose polylined approximation has at least
\* two points that are not all coincident, and one GEOMETRIC_CURVE_SET
\* listing exactly those POLYLINEs; the entity ids are 1, 2, 3, ... in
\* file order.
C23_Wireframe ==
    pc = "wired" =>
        /\ document[1] = [text |-> "ISO-10303-21;"]
        /\ document[Len(document)] = [text |-> "END-ISO-10303-21;"]
        /\ Cardinality({i \in 1..Len(document) :
                           document[i] = [text |-> "FILE_SCHEMA(('AUTOMOTIVE_DESIGN_CC2'));"]}) = 1
        /\ \A polylines \in {DataOf("POLYLINE")}, wired \in {Wired} :
              CurvesWritten(polylines, wired, DataOf("GEOMETRIC_CURVE_SET"))
        /\ \A data \in {DataLines} : \A i \in 1..Len(data) : data[i].id = i

\* A drawing of a circle and of a Bezier curve whose 33 points are one
\* point has been written: one POLYLINE over the 65 points of the circle.
C23_Witness ==
    /\ pc = "wired"
    /\ Len(drawing) = 2
    /\ drawing[1].primitive.type = "CubicBezier"
    /\ drawing[1].kind = "Object"
    /\ Len(primitive_to_polyline_points(drawing[1].primitive)) = 33
    /\ drawing[2].primitive.type = "Circle"
    /\ Len(DataOf("POLYLINE")) = 1
    /\ Len(DataOf("POLYLINE")[1].refs) = 65
    /\ Len(DataOf("CARTESIAN_POINT")) = 65

-----------------------------------------------------------------------------
(* The trigger of the spatial fallback.                                    *)

\* The entities without their layers.
Unlayered(entities) ==
    [i \in 1..Len(entities) |-> [entities[i] EXCEPT !.layer = <<>>]]

\* The outcome of the call is that of the clustering: a failure for a
\* failure, and for a success the three views it gives.
ClusteredAs(result) ==
    /\ (pc = "separated") = result.ok
    /\ (pc = "failed") = (~result.ok /\ ~result.panic)
    /\ result.ok =>
          /\ v_xy.raw_entities = result.views[1]
          /\ v_xz.raw_entities = result.views[2]
          /\ v_yz.raw_entities = result.views[3]

\* The outcome of the clustering does not depend on the layers: it is that
\* for the same entities on no layer, each entity keeping its place.
LayerBlind(result, blind) ==
    /\ result.ok = blind.ok
    /\ result.ok => \A k \in 1..3 : Unlayered(result.views[k]) = blind.views[k]

\* The clustering leaves out the dimensions and the texts and nothing
\* else: a drawing with a geometric entity gets past the test for an empty
\* drawing, and every entity of a view is geometric.
GeometryConsidered(result) ==
    /\ (InitialGroups(drawing, 1) = <<>>)
          = (\A i \in 1..Len(drawing) : drawing[i].kind \in {"Dimension", "Text"})
    /\ Len(InitialGroups(drawing, 1))
          = Cardinality({i \in 1..Len(drawing) :
                            drawing[i].kind \notin {"Dimension", "Text"}})
    /\ result.ok =>
          \A k \in 1..3 : \A i \in 1..Len(result.views[k]) :
              result.views[k][i].kind \notin {"Dimension", "Text"}

\* C24: separate_views invokes the spatial clustering if and only if all
\* three views are empty after layer tagging.  When a view received an
\* entity by its layer, the result is the layer-tagged assignment, whatever
\* the clustering would give; when the clustering is invoked, its outcome
\* is the outcome of the call, and it considers every entity that is
\* neither dimension nor text, regardless of its layer.
C24_FallbackTrigger ==
    pc # "start" =>
        /\ PrimaryPath = ~NoLayerMatches
        /\ PrimaryPath =>
              /\ pc = "separated"
              /\ v_xy.raw_entities = NamedFor("XY")
              /\ v_xz.raw_entities = NamedFor("XZ")
              /\ v_yz.raw_entities = NamedFor("YZ")
        /\ ~PrimaryPath =>
              \A result \in {separate_spatially(drawing)} :
                  /\ ClusteredAs(result)
                  /\ LayerBlind(result, separate_spatially(Unlayered(drawing)))
                  /\ GeometryConsidered(result)

\* Three lines on layer 0 or on no layer, not all alike, have been
\* clustered into three views.
C24_Witness ==
    /\ pc = "separated"
    /\ ~PrimaryPath
    /\ Len(drawing) = 3
    /\ drawing[1].layer = <<<<"0">>>>
    /\ drawing[2].layer = <<>>
    /\ Len(v_xy.raw_entities) = 1
    /\ Len(v_xz.raw_entities) = 1
    /\ Len(v_yz.raw_entities) = 1

-----------------------------------------------------------------------------
(* Inputs of the spatial specification: drawings of unit lines at the      *)
(* places of SpatialPlaces, all but the first on no layer.  Two lines 7    *)
(* apart are merged (their grown boxes overlap), two lines 15 apart or     *)
(* more are not, unless a third lies between them.                         *)

\* The greatest number of entities of a drawing of the spatial specification.
MaxSpatialEntities == 5

\* The left ends of the lines: three in a row 8 apart, one far to the
\* right, two far above.
SpatialPlaces == {<<0, 0>>, <<8, 0>>, <<16, 0>>, <<40, 0>>, <<0, 40>>, <<40, 40>>}

\* Kind and layer of the first entity: a line on no layer, a dimension on no
\* layer, a text on a layer naming a view, a line on a layer naming two.
SpatialFirsts ==
    { <<"Object", <<>>>>,
      <<"Dimension", <<>>>>,
      <<"Text", <<<<"T", "o", "p">>>>>>,
      <<"Object", <<<<"f", "r", "o", "n", "t", "_", "x", "y">>>>>> }

SpatialDrawing(places, first) ==
    [i \in 1..Len(places) |->
        Entity2D(i, IF i = 1 THEN first[1] ELSE "Object",
                 IF i = 1 THEN first[2] ELSE <<>>,
                 Line(P(places[i][1], places[i][2]),
                      P(places[i][1] + 1, places[i][2])))]

InitSpatial ==
    /\ \E n \in 0..MaxSpatialEntities :
          \E places \in [1..n -> SpatialPlaces], first \in SpatialFirsts :
              drawing = SpatialDrawing(places, first)
    /\ v_xy = NoView
    /\ v_xz = NoView
    /\ v_yz = NoView
    /\ shift_xy = Pt(RZero, RZero)
    /\ shift_yz = Pt(RZero, RZero)
    /\ lambda = <<>>
    /\ theta = {}
    /\ step = <<>>
    /\ first_run = <<>>
    /\ CoreIdle
    /\ pc = "start"

NextSpatial == SeparateViews

SpecSpatial == InitSpatial /\ [][NextSpatial]_vars

-----------------------------------------------------------------------------
(* The fixed point of the merge loop.                                      *)

\* definitions when the merge loop of separate_spatially has ended.
Merged == MergeGroups(InitialGroups(drawing, 1))

\* The union of the boxes, each grown by 5, of the entities from the i-th on.
RECURSIVE GrownUnionFrom(_, _, _)
GrownUnionFrom(b, entities, i) ==
    IF i > Len(entities) THEN b
    ELSE GrownUnionFrom(union(b, expand(bbox(entities[i]), <<5, 1>>)),
                        entities, i + 1)

\* The ids of the members of the groups, group after group.
RECURSIVE MemberIds(_, _)
MemberIds(defs, i) ==
    IF i > Len(defs) THEN <<>>
    ELSE [k \in 1..Len(defs[i].ents) |-> defs[i].ents[k].id] \o MemberIds(defs, i + 1)

\* The ids of the entities the loop starts from.
GeometryIds(entities) ==
    {entities[k].id : k \in {k \in 1..Len(entities) : IsGeometry(entities[k])}}

NoneLostOrDuplicated(ids, entities) ==
    /\ {ids[k] : k \in 1..Len(ids)} = GeometryIds(entities)
    /\ Len(ids) = Cardinality(GeometryIds(entities))

-----------------------------------------------------------------------------
(* What the corrections leave of the groups.                               *)

\* The ids of the members of a group.
IdsOf(ents) == {ents[k].id : k \in 1..Len(ents)}

\* The three views hold the groups of indices kept, one group each.
ViewsHold(merged, kept) ==
    {RawIds(v_xy), RawIds(v_xz), RawIds(v_yz)} = {IdsOf(merged[k].ents) : k \in kept}

\* No group left out has more entities than a group of kept.
LargestCounts(merged, kept) ==
    \A k \in kept, dropped \in (1..Len(merged)) \ kept :
        Len(merged[dropped].ents) <= Len(merged[k].ents)

\* The groups after the k-means corrections that hold an entity.
NonEmptyGroups(definitions) ==
    {k \in 1..Len(definitions) : definitions[k].ents # <<>>}

\* C26: on the fallback, when the merge loop leaves more than three groups,
\* the views of separate_spatially are three of them, one view each, and no group left
\* out has more entities than a group kept; when fewer than three non-empty
\* groups remain after the k-means corrections for one and two groups, the
\* call fails and no view is given.
C26_CorrectiveOutcome ==
    (pc # "start" /\ NoLayerMatches) =>
        \A merged \in {Merged} :
            /\ Len(merged) > 3 =>
                  /\ pc = "separated"
                  /\ \E kept \in SUBSET (1..Len(merged)) :
                        /\ Cardinality(kept) = 3
                        /\ ViewsHold(merged, kept)
                        /\ LargestCounts(merged, kept)
                  /\ Len(v_xy.raw_entities) + Len(v_xz.raw_entities)
                         + Len(v_yz.raw_entities)
                       < Cardinality(GeometryIds(drawing))
            /\ (Len(merged) \in {1, 2}
                  /\ Cardinality(NonEmptyGroups(Corrected(merged))) < 3) =>
                  /\ pc = "failed"
                  /\ v_xy = NoView /\ v_xz = NoView /\ v_yz = NoView

\* Four groups of 1, 1, 1 and 2 lines, the largest listed last: it is kept
\* and one of the single lines is left out.
C26_Witness ==
    /\ pc = "separated"
    /\ NoLayerMatches
    /\ Len(Merged) = 4
    /\ Len(Merged[4].ents) = 2
    /\ \E view \in {v_xy, v_xz, v_yz} : RawIds(view) = IdsOf(Merged[4].ents)

-----------------------------------------------------------------------------
(* The roles of the three final groups.                                    *)

\* The centres of the boxes of the groups.
CentersOf(groups) == [k \in 1..Len(groups) |-> center(groups[k].box)]

\* The views are the groups top, front and side, in this order of roles.
RolesGiven(groups, top, front, side) ==
    /\ v_xy.raw_entities = groups[top].ents
    /\ v_xz.raw_entities = groups[front].ents
    /\ v_yz.raw_entities = groups[side].ents

\* No centre lies above that of top, and front is not to the right of side.
RolesByPosition(centers, top, front, side) ==
    /\ RGe(centers[top].y, centers[front].y)
    /\ RGe(centers[top].y, centers[side].y)
    /\ RLe(centers[front].x, centers[side].x)

\* C27: on the fallback the three final groups are given the three roles,
\* one each: the XY view is a group whose centre has the greatest y, and of
\* the other two the XZ view is the one whose centre has the smaller x, the
\* YZ view the other.
C27_RoleAssignment ==
    (pc = "separated" /\ NoLayerMatches) =>
        \A groups \in {SpatialGroups} :
            /\ Len(groups) = 3
            /\ \E top, front, side \in 1..3 :
                  /\ Cardinality({top, front, side}) = 3
                  /\ RolesGiven(groups, top, front, side)
                  /\ RolesByPosition(CentersOf(groups), top, front, side)
            /\ RawIds(v_xy) \cap RawIds(v_xz) = {}
            /\ RawIds(v_xy) \cap RawIds(v_yz) = {}
            /\ RawIds(v_xz) \cap RawIds(v_yz) = {}

\* Three groups listed top first, then the right one, then the left one: the
\* first group is the XY view, the third the XZ view, the second the YZ view.
C27_Witness ==
    /\ pc = "separated"
    /\ NoLayerMatches
    /\ \E groups \in {SpatialGroups} :
          /\ Len(groups) = 3
          /\ RolesGiven(groups, 1, 3, 2)
          /\ \E centers \in {CentersOf(groups)} :
                /\ RGt(centers[1].y, centers[2].y)
                /\ RGt(centers[2].x, centers[3].x)

-----------------------------------------------------------------------------
(* The alignment of the views.                                             *)

\* The sum of one coordinate of the vertices from the i-th on.
RECURSIVE CoordSum(_, _, _)
CoordSum(vertices, axis, i) ==
    IF i > Len(vertices) THEN RZero
    ELSE RAdd(vertices[i].point[axis], CoordSum(vertices, axis, i + 1))

\* c_A of a list of vertices: their mean, the origin when there is none.
MeanVertex(vertices) ==
    IF vertices = <<>> THEN Pt(RZero, RZero)
    ELSE Pt(RDiv(CoordSum(vertices, "x", 1), RInt(Len(vertices))),
            RDiv(CoordSum(vertices, "y", 1), RInt(Len(vertices))))

\* The vertices, each moved by the shift.
ShiftedBy(vertices, shift) ==
    [k \in 1..Len(vertices) |->
        Vertex2D(vertices[k].id, PAdd(vertices[k].point, shift))]

\* The centroid of a view once it is shifted: the mean of its moved vertices,
\* the moved origin for a view without vertices.
ShiftedCentroid(vertices, shift) ==
    IF vertices = <<>> THEN PAdd(MeanVertex(vertices), shift)
    ELSE MeanVertex(ShiftedBy(vertices, shift))

\* The point of a row is made of the XY vertex moved by shift_xy and of the
\* y of the XZ vertex as it stands in its view.
RowUsesRawXZ(row) ==
    row.p3 = Point3(PAdd(VertexOf(v_xy, row.v_xy_id).point, shift_xy).x,
                    VertexOf(v_xy, row.v_xy_id).point.y,
                    VertexOf(v_xz, row.v_xz_id).point.y)

ShiftsOf(c_xy, c_xz, c_yz) ==
    /\ shift_xy = Pt(RSub(c_xz.x, c_xy.x), RZero)
    /\ shift_yz = Pt(RSub(c_xy.y, c_yz.x), RSub(c_xz.y, c_yz.y))
    /\ ShiftedCentroid(v_xy.vertices, shift_xy) = Pt(c_xz.x, c_xy.y)
    /\ ShiftedCentroid(v_yz.vertices, shift_yz) = Pt(c_xy.y, c_xz.y)

\* C28: build_reconstruction sets shift_xy = (c_xz.x - c_xy.x, 0) and
\* shift_yz = (c_xy.y - c_yz.x, c_xz.y - c_yz.y), c_A being the mean of the
\* vertices of view A, the origin for a view without vertices; shift_xy moves
\* no y, the shifted XY centroid has the x of the XZ centroid, the shifted YZ
\* centroid is (c_xy.y, c_xz.y), and the rows of Lambda take the XZ vertices
\* where they are.
C28_ViewAlignment ==
    pc = "reconstructed" =>
        /\ ShiftsOf(MeanVertex(v_xy.vertices), MeanVertex(v_xz.vertices),
                    MeanVertex(v_yz.vertices))
        /\ \A k \in 1..Len(lambda) : RowUsesRawXZ(lambda[k])
        /\ \A k \in 1..Len(v_xy.vertices) :
              PAdd(v_xy.vertices[k].point, shift_xy).y = v_xy.vertices[k].point.y

\* Three views of two vertices each whose centroids differ in every
\* coordinate the shifts use, with a row in Lambda.
C28_Witness ==
    /\ pc = "reconstructed"
    /\ Len(v_xy.vertices) = 2 /\ Len(v_xz.vertices) = 2 /\ Len(v_yz.vertices) = 2
    /\ shift_xy.x # RZero
    /\ shift_yz.x # RZero
    /\ shift_yz.y # RZero
    /\ shift_yz.x # shift_yz.y
    /\ lambda # <<>>

-----------------------------------------------------------------------------
(* The completeness of the lifter.                                         *)

FinitePoint(v) == is_finite(v.point.x) /\ is_finite(v.point.y)

\* The positions in Lambda of the rows with the ids of the three vertices.
RowsOf(v1, v2, v3) ==
    {k \in 1..Len(lambda) :
        /\ lambda[k].v_xy_id = v1.id
        /\ lambda[k].v_xz_id = v2.id
        /\ lambda[k].v_yz_id = v3.id}

\* The three vertices agree in x, y and z under the shifts.
Matching(v1, v2, v3) ==
    /\ FinitePoint(v1) /\ FinitePoint(v2) /\ FinitePoint(v3)
    /\ AgreeX(v1, v2)
    /\ AgreeY(v1, v3)
    /\ AgreeZ(v2, v3)

\* C29: for every XY vertex v1, XZ vertex v2 and YZ vertex v3 of finite
\* coordinates with |v1.x + shift_xy.x - v2.x| <= 1.0,
\* |v1.y - (v3.x + shift_yz.x)| <= 1.0 and |v2.y - (v3.y + shift_yz.y)| <= 1.0,
\* Lambda has exactly one row with the ids of v1, v2 and v3.
C29_LifterComplete ==
    Reconstructed =>
        \A i \in 1..Len(v_xy.vertices), j \in 1..Len(v_xz.vertices),
           k \in 1..Len(v_yz.vertices) :
            Matching(v_xy.vertices[i], v_xz.vertices[j], v_yz.vertices[k]) =>
                Cardinality(RowsOf(v_xy.vertices[i], v_xz.vertices[j],
                                   v_yz.vertices[k])) = 1

\* Two XZ vertices in the window of one XY vertex, the first of them at the
\* lower end of the window, each matched by a YZ vertex: two rows.
C29_Witness ==
    /\ pc = "reconstructed"
    /\ Len(v_xz.vertices) = 2
    /\ \E i \in 1..Len(v_xy.vertices), k \in 1..Len(v_yz.vertices) :
          /\ Matching(v_xy.vertices[i], v_xz.vertices[1], v_yz.vertices[k])
          /\ Matching(v_xy.vertices[i], v_xz.vertices[2], v_yz.vertices[k])
          /\ \E j \in 1..2 :
                RSub(RAdd(v_xy.vertices[i].point.x, shift_xy.x),
                     v_xz.vertices[j].point.x) = MATCH_TOLERANCE
    /\ Len(lambda) >= 2

-----------------------------------------------------------------------------
(* The views as a partition of the drawing.                                *)

\* The ids of the raw entities of the three views, view after view.
ViewIds ==
    [k \in 1..Len(v_xy.raw_entities) |-> v_xy.raw_entities[k].id]
    \o [k \in 1..Len(v_xz.raw_entities) |-> v_xz.raw_entities[k].id]
    \o [k \in 1..Len(v_yz.raw_entities) |-> v_yz.raw_entities[k].id]

\* Every raw entity of the view is an entity of the drawing as it stands
\* there, and neither a dimension nor a text.
CopiesOfGeometry(view) ==
    \A k \in 1..Len(view.raw_entities) :
        /\ IsGeometry(view.raw_entities[k])
        /\ \E i \in 1..Len(drawing) : drawing[i] = view.raw_entities[k]

\* C30: when separate_views succeeds no entity of the drawing is in two
\* views or twice in one, no view holds a dimension or a text, and every
\* entity of a view is an entity of the drawing unchanged; on the fallback
\* with at most three groups after the merge loop every entity that is
\* neither a dimension nor a text is in exactly one view.
C30_ViewPartition ==
    pc = "separated" =>
        \A ids \in {ViewIds} :
            /\ \A a, b \in 1..Len(ids) : a # b => ids[a] # ids[b]
            /\ CopiesOfGeometry(v_xy)
            /\ CopiesOfGeometry(v_xz)
            /\ CopiesOfGeometry(v_yz)
            /\ (NoLayerMatches /\ Len(Merged) <= 3) =>
                  NoneLostOrDuplicated(ids, drawing)

\* A dimension and four lines that merge into one group, which k-means
\* splits into the three views.
C30_Witness ==
    /\ pc = "separated"
    /\ NoLayerMatches
    /\ Len(drawing) = 5
    /\ drawing[1].kind = "Dimension"
    /\ Len(Merged) = 1
    /\ Len(ViewIds) = 4

=============================================================================
